---- MODULE Spec2Model ----
(***************************************************************************)
(* Model of the fireplace controller: the bounded Counter with its         *)
(* callbacks (rotary_encoder/rotary.py), the Fireplace controller with its *)
(* worker thread (controller.py), the audio player it drives               *)
(* (audio/audio_tools.py) and the HTTP handlers in front of it (api.py).   *)
(*                                                                         *)
(* Threads: the HTTP server thread (one request at a time, HTTPServer is   *)
(* single-threaded), the worker thread spawned by Fireplace.start, and the *)
(* GPIO notification context running encoder_callback.  Statements that    *)
(* read or write Fireplace fields outside self._lock are separate steps.   *)
(*                                                                         *)
(* Numbers: Python floats are modelled as exact rationals [n, d] in lowest *)
(* terms; None is modelled by NoneT (times, durations) and NoneRat.        *)
(***************************************************************************)
EXTENDS Integers, Sequences, FiniteSets, TLC

\* ------------------------------------------------------------------ bounds
\* the wall clock runs up to MaxTime seconds
MaxTime == 90
\* encoder callbacks run per behaviour
MaxEncTicks == 3
\* milliseconds the encoder's clock runs after the callback is registered,
\* and clock-line edges waiting for their callback
MaxMs == 4
MaxPending == 2
\* seconds the set-up of the animation loop may take
MaxSetup == 4
\* load_noise calls made for one BackgroundNoiseLoader
MaxLoads == 4
\* files generate_noise_files is asked to write
MaxFiles == 4
\* temperatures given to a ColorMap are multiples of 1/MaxTemp
MaxTemp == 8
\* worker threads spawned per behaviour
MaxRuns == 1
\* worker threads started per behaviour where one run follows another
MaxRestarts == 2
\* noise fields the render loop fetches per behaviour
MaxFields == 3
\* Counter specification: largest upper range bound and largest step
MaxHi == 4
MaxStep == 3

\* ------------------------------------------------------- program constants
SECONDS_PER_MINUTE == 60
MAX_DURATION_MINUTES == 480
JOIN_TIMEOUT == 5
FADE_CHECK_PERIOD == 5
\* the wall clock advances half a minute at a time
ClockStep == SECONDS_PER_MINUTE \div 2
DEBOUNCE_MS == 2
COUNTER_INIT == 80
COUNTER_MIN == 0
COUNTER_MAX == 100
COUNTER_STEP == 2
DEFAULT_VOLUME == 80
VOLUME_MIN == 0
VOLUME_MAX == 100
AUDIO_INIT_VOLUME == 50
HIGH == 1
LOW == 0

\* request parameters tried by the HTTP client
\* <<duration_minutes, fade_out_minutes>>
StartInputs == {<<0, 0>>, <<MAX_DURATION_MINUTES + 1, 0>>, <<1, 0 - 1>>,
                <<1, 0>>, <<1, 1>>}
VolumeInputs == {0 - 1, 50, VOLUME_MAX + 1}

\* ------------------------------------------------------------- rationals
NoneT == 0 - 1
NoneRat == [n |-> 0, d |-> 0]

Abs(i) == IF i < 0 THEN 0 - i ELSE i

RECURSIVE GCD(_, _)
GCD(a, b) == IF b = 0 THEN a ELSE GCD(b, a % b)

\* the rational n/d (d # 0) in lowest terms with a positive denominator
Rat(n, d) ==
  LET s == IF d < 0 THEN 0 - 1 ELSE 1
      g == GCD(Abs(n), Abs(d))
  IN [n |-> (s * n) \div g, d |-> (s * d) \div g]

RatInt(i) == [n |-> i, d |-> 1]
RatAdd(a, b) == Rat(a.n * b.d + b.n * a.d, a.d * b.d)
RatSub(a, b) == Rat(a.n * b.d - b.n * a.d, a.d * b.d)
RatMul(a, b) == Rat(a.n * b.n, a.d * b.d)
RatDiv(a, b) == Rat(a.n * b.d, a.d * b.n)
RatLeq(a, b) == a.n * b.d <= b.n * a.d
RatLt(a, b) == a.n * b.d < b.n * a.d
RatMin(a, b) == IF RatLeq(a, b) THEN a ELSE b
RatMax(a, b) == IF RatLeq(a, b) THEN b ELSE a
RatAbs(a) == [n |-> Abs(a.n), d |-> a.d]
\* Python int(x): truncation toward zero
RatTrunc(a) == IF a.n >= 0 THEN a.n \div a.d ELSE 0 - ((0 - a.n) \div a.d)

IntMin(a, b) == IF a <= b THEN a ELSE b
IntMax(a, b) == IF a <= b THEN b ELSE a

\* ------------------------------------------------------------------ state
VARIABLES
  now,               \* time.time(), in seconds
  \* Fireplace fields
  running, stop_event, thread, start_time, duration_seconds,
  fade_out_seconds, fade_start_volume, lock,
  pixels, audio_player, counter,
  \* the Counter object and the record of its last callback notification
  ctr, calls,
  \* collaborators: LED strip, audio player object, GPIO
  display, brightness, audio, event_detect,
  \* worker thread
  wpc, wloc, runs,
  \* HTTP server thread
  apc, areq, aloc,
  \* bookkeeping of the run: accepted encoder callbacks, frames rendered
  \* while the stop event was set
  enc_ticks, late_frames,
  \* the encoder: clock in milliseconds, the closure's last_trigger_time,
  \* the levels of the clock and data lines, the clock-line edges whose
  \* callback has not run yet, the last callback run and the times of the
  \* callbacks that moved the Counter
  enc,
  \* a BackgroundNoiseLoader with the thread that calls get_noise and the
  \* background threads it has spawned
  loader,
  \* a noise directory: the files generate_noise_files wrote, the order
  \* os.listdir gives them in, and the last load_noise call with its result
  noise_files,
  \* the fireplace.lights objects: a ColorMap with its last call, and the
  \* numpy global generator with the PerlinNoise objects built from it
  lights

ctrlVars == <<running, stop_event, thread, start_time, duration_seconds,
              fade_out_seconds, fade_start_volume, lock,
              pixels, audio_player, counter>>
hwVars == <<display, brightness, audio, event_detect>>
workerVars == <<wpc, wloc>>
apiVars == <<apc, areq, aloc>>
vars == <<now, ctrlVars, ctr, calls, hwVars, workerVars, runs, apiVars,
          enc_ticks, late_frames, enc, loader, noise_files, lights>>

\* ---------------------------------------------------------------- Counter
CallbackIds == {"_set_volume", "_set_brightness"}

\* Counter.__init__
NewCounter(value, lo, hi, step, callbacks) ==
  [value |-> value, lo |-> lo, hi |-> hi, step |-> step,
   callbacks |-> callbacks, CLK_Last |-> HIGH, dtLastState |-> HIGH]

\* the Counter the controller builds in _initialize_hardware
ControllerCounter ==
  NewCounter(RatInt(COUNTER_INIT), RatInt(COUNTER_MIN), RatInt(COUNTER_MAX),
             RatInt(COUNTER_STEP), <<"_set_volume", "_set_brightness">>)

\* placeholder while no Counter object exists
NoCounter == NewCounter(RatInt(0), RatInt(0), RatInt(0), RatInt(0), <<>>)

\* a run_callbacks that walks the callback list backwards
RunCallbacksReversed(c) ==
  [i \in 1..Len(c.callbacks) |->
     [cb |-> c.callbacks[Len(c.callbacks) + 1 - i], value |-> c.value]]

\* Counter.run_callbacks: the notifications made, in order
RunCallbacks(c) ==
  [i \in 1..Len(c.callbacks) |-> [cb |-> c.callbacks[i], value |-> c.value]]

\* an up() that forgets the upper bound
UpValueUnclamped(c) == RatAdd(c.value, c.step)

\* Counter.up / Counter.down: the new value
UpValue(c) == RatMin(RatAdd(c.value, c.step), c.hi)
DownValue(c) == RatMax(RatSub(c.value, c.step), c.lo)

CounterUp(c) == [c EXCEPT !.value = UpValue(c)]
CounterDown(c) == [c EXCEPT !.value = DownValue(c)]

\* AudioPlayer.set_volume: clamp to 0..100
ClampVolume(v) == IntMax(VOLUME_MIN, IntMin(VOLUME_MAX, v))

\* a set_volume that stores the requested value as it came
ClampValueNone(v) == v

\* Fireplace.set_volume: value = max(0, min(100, value))
ClampValue(v) == IntMax(0, IntMin(100, v))

\* Fireplace._set_volume(value) on the audio player object a
SetVolumeCb(a, hasPlayer, value) ==
  IF hasPlayer THEN [a EXCEPT !.volume = ClampVolume(RatTrunc(value))] ELSE a

\* Fireplace._set_brightness(value): pixels.brightness = value / 100 * 0.5
SetBrightnessCb(b, hasPixels, value) ==
  IF hasPixels THEN RatMul(RatDiv(value, RatInt(100)), Rat(1, 2)) ELSE b

\* the audio player after the notifications in log were delivered
RECURSIVE AudioAfter(_, _, _)
AudioAfter(a, hasPlayer, log) ==
  IF log = <<>> THEN a
  ELSE AudioAfter(IF Head(log).cb = "_set_volume"
                  THEN SetVolumeCb(a, hasPlayer, Head(log).value) ELSE a,
                  hasPlayer, Tail(log))

RECURSIVE BrightnessAfter(_, _, _)
BrightnessAfter(b, hasPixels, log) ==
  IF log = <<>> THEN b
  ELSE BrightnessAfter(IF Head(log).cb = "_set_brightness"
                       THEN SetBrightnessCb(b, hasPixels, Head(log).value) ELSE b,
                       hasPixels, Tail(log))

\* store the Counter c and deliver its notifications (controller callbacks)
Notify(c) ==
  /\ ctr' = c
  /\ calls' = RunCallbacks(c)
  /\ audio' = AudioAfter(audio, audio_player, RunCallbacks(c))
  /\ brightness' = BrightnessAfter(brightness, pixels, RunCallbacks(c))

\* ------------------------------------------------------------- controller
\* AudioPlayer.__init__: no process yet, volume 50, no monitor thread,
\* _stopping False.  proc is the state of self._process (none, running,
\* exited), live the number of player processes alive, playing whether a
\* track is being played, monitor the position of the monitor thread, and
\* spawned whether the play() in progress had to start a process
NewAudioPlayer ==
  [volume |-> AUDIO_INIT_VOLUME, proc |-> "none", stopping |-> FALSE,
   live |-> 0, playing |-> FALSE, monitor |-> "none", spawned |-> FALSE]

\* AudioPlayer.play on a player without a process: the process is started,
\* the file loaded and the monitor thread started
Play(a) ==
  [a EXCEPT !.proc = "running", !.live = 1, !.playing = TRUE,
            !.monitor = "reading", !.stopping = FALSE]

\* worker locals outside any computation
NoLocals ==
  [current_time |-> NoneT, last_fade_check |-> NoneT, r_start |-> NoneT,
   r_dur |-> NoneT, r_now |-> NoneT, remaining |-> NoneT,
   progress |-> NoneRat, target |-> NoneRat, exit |-> "none"]

NoRequest == [op |-> "none", d |-> 0, f |-> 0, v |-> 0]
NoApiLocals ==
  [new_duration |-> NoneT, new_fade |-> NoneT, was_running |-> FALSE,
   join_start |-> NoneT, ret |-> "none", resp |-> "none",
   s_running |-> FALSE, s_elapsed |-> NoneT, s_remaining |-> NoneT,
   s_volume |-> NoneT]

\* an empty noise directory, nothing loaded.  Field k is the array generated
\* as file number k; file noise_k.npy is written k
NoNoiseFiles ==
  [n_files |-> 0, content |-> <<>>, listing |-> <<>>, call |-> "none",
   index |-> NoneT, result |-> "none", array |-> NoneT]

\* no ColorMap built and no colour asked for
NoColorMap == [palette |-> <<>>, ext_palette |-> <<>>, gamma |-> NoneT, ncols |-> 0]
NoColor ==
  [x |-> NoneRat, start |-> NoneT, rebased |-> NoneRat, color |-> <<>>,
   result |-> "none", out |-> <<>>]
\* no PerlinNoise object in a slot; the numpy global generator as the
\* interpreter starts it; no render call made yet
NoGenerator ==
  [shape |-> <<>>, repetition_period |-> NoneT, seed |-> NoneT,
   angles |-> <<>>, first |-> <<>>, last |-> <<>>]
NoArgs ==
  [octaves |-> NoneT, pixel_offset |-> <<>>, persistence |-> NoneRat,
   relative_factor |-> NoneRat]
\* the scan of the render loop before _animation_loop has fetched a field:
\* screen is the pair <<first row, row after the last>> of the rows taken
\* for the frame, frames counts the frames made from the active field and
\* dropped lists the fields that were replaced
NoScan ==
  [rows |-> NoneT, max_step |-> NoneT, step |-> NoneT, screen |-> <<>>,
   frames |-> 0, fetched |-> 0, dropped |-> <<>>, result |-> "none"]
NoLights ==
  [cmap |-> NoColorMap, call |-> NoColor,
   rng |-> 0, a |-> NoGenerator, b |-> NoGenerator, args |-> NoArgs,
   scan |-> NoScan]

\* BackgroundNoiseLoader.__init__: empty buffer, not loading, lock free.
\* Fields are numbered in the order load_noise returns them, 0 is None;
\* threads[i] is the i-th background thread and field[i] what it loaded
NewLoader ==
  [noise_buffer |-> 0, loading |-> FALSE, lock |-> "free",
   pc |-> "idle", noise |-> 0, loads |-> 0,
   threads |-> <<>>, field |-> <<>>, handed |-> <<>>]

\* no callback has run
NoCallback == [edge |-> "none", t |-> NoneT, accepted |-> FALSE, moved |-> "none"]

\* create_encoder_callback: last_trigger_time = [0.0]; both lines are pulled
\* up.  time.time() * 1000 is far above debounce_ms when the callback is
\* registered: the clock is counted from debounce_ms
NewEncoder ==
  [ms |-> DEBOUNCE_MS, last_trigger_time |-> 0, CLK |-> HIGH, DT |-> HIGH,
   pending |-> <<>>, last |-> NoCallback, tick_times |-> <<>>,
   pc |-> "idle", CLK_State |-> NoneT, DT_State |-> NoneT,
   base |-> NoneRat, new |-> NoneRat, log |-> <<>>]

\* Fireplace.__init__ and the module-level state around it
Init ==
  /\ now = 0
  /\ running = FALSE
  /\ stop_event = FALSE
  /\ thread = 0
  /\ start_time = NoneT
  /\ duration_seconds = NoneT
  /\ fade_out_seconds = 0
  /\ fade_start_volume = NoneRat
  /\ lock = "free"
  /\ pixels = FALSE
  /\ audio_player = FALSE
  /\ counter = FALSE
  /\ ctr = NoCounter
  /\ calls = <<>>
  /\ display = "off"
  /\ brightness = RatInt(0)
  /\ audio = NewAudioPlayer
  /\ event_detect = FALSE
  /\ wpc = "none"
  /\ wloc = NoLocals
  /\ runs = 0
  /\ apc = "ready"
  /\ areq = NoRequest
  /\ aloc = NoApiLocals
  /\ enc_ticks = 0
  /\ late_frames = 0
  /\ enc = NewEncoder
  /\ loader = NewLoader
  /\ noise_files = NoNoiseFiles
  /\ lights = NoLights

\* Fireplace.is_running
IsRunning == running

\* a remaining time that is not cut off at zero
RemainingUnclamped(duration, elapsed) == duration - elapsed

\* remaining_seconds: max(0, int(self._duration_seconds - elapsed)), on whole
\* seconds
Remaining(duration, elapsed) == IntMax(0, duration - elapsed)

\* remaining_seconds: the guard that makes it return 0
NoRemaining == ~running \/ start_time = NoneT \/ duration_seconds = NoneT

\* Fireplace.remaining_seconds, evaluated at one instant
RemainingSeconds ==
  IF NoRemaining THEN 0
  ELSE Remaining(duration_seconds, now - start_time)

\* the wall clock advances
Tick ==
  /\ now + ClockStep <= MaxTime
  /\ now' = now + ClockStep
  /\ UNCHANGED <<ctrlVars, ctr, calls, hwVars, workerVars, runs, apiVars,
                 enc_ticks, late_frames, enc, loader, noise_files, lights>>

\* ------------------------------------------------------- HTTP server thread
Requests ==
  {[op |-> "start", d |-> i[1], f |-> i[2], v |-> 0] : i \in StartInputs}
  \cup {[op |-> "stop", d |-> 0, f |-> 0, v |-> 0]}
  \cup {[op |-> "volume", d |-> 0, f |-> 0, v |-> v] : v \in VolumeInputs}

\* a validation that lets a zero duration through
ValidStartAllowsZero(r) ==
  /\ r.d >= 0
  /\ r.d <= MAX_DURATION_MINUTES
  /\ r.f >= 0

\* _handle_start: the request passes validation
ValidStart(r) ==
  /\ r.d > 0
  /\ r.d <= MAX_DURATION_MINUTES
  /\ r.f >= 0

\* _handle_volume: the request passes validation
ValidVolume(r) == r.v >= VOLUME_MIN /\ r.v <= VOLUME_MAX

\* Fireplace.start: new_duration and new_fade
NewDuration(d) == d * SECONDS_PER_MINUTE
NewFade(d, f) == IntMin(f * SECONDS_PER_MINUTE, NewDuration(d))

apiFrame == <<ctr, calls, hwVars, workerVars, enc_ticks, late_frames, enc,
              loader, noise_files, lights,
              now>>

\* do_POST /start, _handle_start: the request is validated;
\* was_running = fireplace.is_running.  At most limit runs are started
HandleStartUpTo(reqs, limit) ==
  /\ apc = "ready"
  /\ \E r \in reqs :
       /\ r.op = "start"
       /\ areq' = r
       /\ IF ValidStart(r)
          THEN /\ now + NewDuration(r.d) <= MaxTime
               /\ running \/ runs < limit
               /\ apc' = "start_lock"
               /\ aloc' = [NoApiLocals EXCEPT !.was_running = IsRunning]
          ELSE /\ apc' = "respond"
               /\ aloc' = [NoApiLocals EXCEPT !.resp = "400"]
  /\ UNCHANGED <<ctrlVars, runs, apiFrame>>

HandleStartOf(reqs) == HandleStartUpTo(reqs, MaxRuns)

HandleStart == HandleStartOf(Requests)

\* a start() that does not look at _running
StartLockBlind(limit) ==
  /\ apc = "start_lock"
  /\ lock = "free"
  /\ aloc' = [aloc EXCEPT !.new_duration = NewDuration(areq.d),
                          !.new_fade = NewFade(areq.d, areq.f)]
  /\ runs < limit
  /\ running' = TRUE
  /\ stop_event' = FALSE
  /\ duration_seconds' = NewDuration(areq.d)
  /\ fade_out_seconds' = NewFade(areq.d, areq.f)
  /\ fade_start_volume' = NoneRat
  /\ start_time' = now
  /\ late_frames' = 0
  /\ lock' = "free"
  /\ apc' = "start_spawn"
  /\ UNCHANGED <<areq, thread, pixels, audio_player, counter, runs,
                 ctr, calls, hwVars, workerVars, enc_ticks, enc, loader,
                 noise_files, lights, now>>

\* Fireplace.start: take the lock; from Idle set the run state up
StartLockUpTo(limit) ==
  /\ apc = "start_lock"
  /\ lock = "free"
  /\ aloc' = [aloc EXCEPT !.new_duration = NewDuration(areq.d),
                          !.new_fade = NewFade(areq.d, areq.f)]
  /\ IF running
     THEN /\ lock' = "api"
          /\ apc' = "upd_duration"
          /\ UNCHANGED <<running, stop_event, duration_seconds, fade_out_seconds,
                         fade_start_volume, start_time, late_frames>>
     ELSE /\ runs < limit
          /\ running' = TRUE
          /\ stop_event' = FALSE
          /\ duration_seconds' = NewDuration(areq.d)
          /\ fade_out_seconds' = NewFade(areq.d, areq.f)
          /\ fade_start_volume' = NoneRat
          /\ start_time' = now
          /\ late_frames' = 0
          /\ lock' = "free"
          /\ apc' = "start_spawn"
  /\ UNCHANGED <<areq, thread, pixels, audio_player, counter, runs,
                 ctr, calls, hwVars, workerVars, enc_ticks, enc, loader,
                 noise_files, lights, now>>

StartLock == StartLockUpTo(MaxRuns)

\* Fireplace.start, live update: self._duration_seconds = new_duration
UpdDuration ==
  /\ apc = "upd_duration"
  /\ duration_seconds' = aloc.new_duration
  /\ apc' = "upd_fade"
  /\ UNCHANGED <<running, stop_event, thread, start_time, fade_out_seconds,
                 fade_start_volume, lock, pixels, audio_player, counter,
                 areq, aloc, runs, apiFrame>>

\* live update: self._fade_out_seconds = new_fade
UpdFade ==
  /\ apc = "upd_fade"
  /\ fade_out_seconds' = aloc.new_fade
  /\ apc' = "upd_anchor"
  /\ UNCHANGED <<running, stop_event, thread, start_time, duration_seconds,
                 fade_start_volume, lock, pixels, audio_player, counter,
                 areq, aloc, runs, apiFrame>>

\* live update: self._fade_start_volume = None
UpdAnchor ==
  /\ apc = "upd_anchor"
  /\ fade_start_volume' = NoneRat
  /\ apc' = "upd_time"
  /\ UNCHANGED <<running, stop_event, thread, start_time, duration_seconds,
                 fade_out_seconds, lock, pixels, audio_player, counter,
                 areq, aloc, runs, apiFrame>>

\* a live update that keeps the old timer
UpdTimeStale ==
  /\ apc = "upd_time"
  /\ lock' = "free"
  /\ apc' = "respond"
  /\ aloc' = [aloc EXCEPT !.ret = "True", !.resp = "200"]
  /\ UNCHANGED <<running, stop_event, thread, start_time, duration_seconds,
                 fade_out_seconds, fade_start_volume, pixels, audio_player,
                 counter, areq, runs, apiFrame>>

\* live update: self._start_time = time.time(); return True
UpdTime ==
  /\ apc = "upd_time"
  /\ start_time' = now
  /\ lock' = "free"
  /\ apc' = "respond"
  /\ aloc' = [aloc EXCEPT !.ret = "True", !.resp = "200"]
  /\ UNCHANGED <<running, stop_event, thread, duration_seconds,
                 fade_out_seconds, fade_start_volume, pixels, audio_player,
                 counter, areq, runs, apiFrame>>

\* Fireplace.start from Idle: create and start the worker thread; return True
StartSpawn ==
  /\ apc = "start_spawn"
  /\ runs' = runs + 1
  /\ thread' = runs + 1
  /\ wpc' = "init_pixels"
  /\ wloc' = NoLocals
  /\ apc' = "respond"
  /\ aloc' = [aloc EXCEPT !.ret = "True", !.resp = "200"]
  /\ UNCHANGED <<running, stop_event, start_time, duration_seconds,
                 fade_out_seconds, fade_start_volume, lock, pixels,
                 audio_player, counter, areq, ctr, calls, hwVars,
                 enc_ticks, late_frames, enc, loader, noise_files, lights, now>>

\* a stop() without the running check
StopCheckAlways ==
  /\ apc = "ready"
  /\ lock = "free"
  /\ areq' = [NoRequest EXCEPT !.op = "stop"]
  /\ apc' = "stop_set"
  /\ aloc' = NoApiLocals
  /\ UNCHANGED <<ctrlVars, runs, apiFrame>>

\* do_POST /stop, Fireplace.stop: the check under the lock; _handle_stop
\* answers 409 when it returns False
StopCheck ==
  /\ apc = "ready"
  /\ lock = "free"
  /\ areq' = [NoRequest EXCEPT !.op = "stop"]
  /\ IF ~running
     THEN /\ apc' = "respond"
          /\ aloc' = [NoApiLocals EXCEPT !.ret = "False", !.resp = "409"]
     ELSE /\ apc' = "stop_set"
          /\ aloc' = NoApiLocals
  /\ UNCHANGED <<ctrlVars, runs, apiFrame>>

\* Fireplace.stop: self._stop_event.set(); then join if there is a thread
StopSet ==
  /\ apc = "stop_set"
  /\ stop_event' = TRUE
  /\ IF thread # 0
     THEN /\ apc' = "stop_join"
          /\ aloc' = [aloc EXCEPT !.join_start = now]
     ELSE /\ apc' = "respond"
          /\ aloc' = [aloc EXCEPT !.ret = "True", !.resp = "200"]
  /\ UNCHANGED <<running, thread, start_time, duration_seconds,
                 fade_out_seconds, fade_start_volume, lock, pixels,
                 audio_player, counter, areq, runs, apiFrame>>

\* Fireplace.stop: self._thread.join(timeout=5.0) returns, because the
\* worker has exited or because the timeout has elapsed; return True
StopJoin ==
  /\ apc = "stop_join"
  /\ \/ wpc = "none"
     \/ now - aloc.join_start >= JOIN_TIMEOUT
  /\ thread' = 0
  /\ apc' = "respond"
  /\ aloc' = [aloc EXCEPT !.ret = "True", !.resp = "200"]
  /\ UNCHANGED <<running, stop_event, start_time, duration_seconds,
                 fade_out_seconds, fade_start_volume, lock, pixels,
                 audio_player, counter, areq, runs, apiFrame>>

\* do_POST /volume, _handle_volume: validation, then Fireplace.set_volume's
\* running check
HandleVolume ==
  /\ apc = "ready"
  /\ \E r \in Requests :
       /\ r.op = "volume"
       /\ areq' = r
       /\ IF ~ValidVolume(r)
          THEN /\ apc' = "respond"
               /\ aloc' = [NoApiLocals EXCEPT !.resp = "400"]
          ELSE IF ~running \/ ~counter
          THEN /\ apc' = "respond"
               /\ aloc' = [NoApiLocals EXCEPT !.ret = "False", !.resp = "409"]
          ELSE /\ apc' = "vol_set"
               /\ aloc' = NoApiLocals
  /\ UNCHANGED <<ctrlVars, runs, apiFrame>>

\* a direct call of Fireplace.set_volume(v), without the HTTP validation:
\* the running and Counter check
CallSetVolume ==
  /\ apc = "ready"
  /\ \E v \in VolumeInputs :
       areq' = [op |-> "set_volume", d |-> 0, f |-> 0, v |-> v]
  /\ IF ~running \/ ~counter
     THEN /\ apc' = "respond"
          /\ aloc' = [NoApiLocals EXCEPT !.ret = "False"]
     ELSE /\ apc' = "vol_set"
          /\ aloc' = NoApiLocals
  /\ UNCHANGED <<ctrlVars, runs, apiFrame>>

\* Fireplace.set_volume: clamp; self._counter.value = value; run_callbacks()
\* (self._counter is read again: it may be None by now)
VolSet ==
  /\ apc = "vol_set"
  /\ apc' = "respond"
  /\ IF counter
     THEN /\ Notify([ctr EXCEPT !.value = RatInt(ClampValue(areq.v))])
          /\ aloc' = [aloc EXCEPT !.ret = "True",
                                  !.resp = IF areq.op = "volume" THEN "200"
                                           ELSE aloc.resp]
     ELSE /\ aloc' = [aloc EXCEPT !.resp = "crash"]
          /\ UNCHANGED <<ctr, calls, audio, brightness>>
  /\ UNCHANGED <<areq, ctrlVars, runs, display, event_detect, workerVars,
                 enc_ticks, late_frames, enc, loader, noise_files, lights, now>>

\* the response is sent; the server waits for the next request
ApiRespond ==
  /\ apc = "respond"
  /\ apc' = "ready"
  /\ areq' = NoRequest
  /\ aloc' = NoApiLocals
  /\ UNCHANGED <<ctrlVars, runs, apiFrame>>

Api ==
  \/ HandleStart \/ StartLock \/ UpdDuration \/ UpdFade
  \/ UpdAnchor \/ UpdTime \/ StartSpawn \/ StopCheck \/ StopSet \/ StopJoin
  \/ HandleVolume \/ VolSet \/ ApiRespond

\* ---------------------------------------------------------------- GET /status
\* do_GET /status: "running": fireplace.is_running
HandleStatus ==
  /\ apc = "ready"
  /\ areq' = [NoRequest EXCEPT !.op = "status"]
  /\ aloc' = [NoApiLocals EXCEPT !.s_running = IsRunning]
  /\ apc' = "st_check"
  /\ UNCHANGED <<ctrlVars, runs, apiFrame>>

\* remaining_seconds: return 0 unless running with a start time and a
\* duration
StRemCheck ==
  /\ apc = "st_check"
  /\ IF NoRemaining
     THEN /\ aloc' = [aloc EXCEPT !.s_remaining = 0]
          /\ apc' = "st_vol_check"
     ELSE /\ apc' = "st_elapsed"
          /\ UNCHANGED aloc
  /\ UNCHANGED <<areq, ctrlVars, runs, apiFrame>>

\* elapsed = time.time() - self._start_time (a TypeError when the worker has
\* reset the start time since the guard)
StElapsed ==
  /\ apc = "st_elapsed"
  /\ IF start_time = NoneT
     THEN /\ aloc' = [aloc EXCEPT !.resp = "crash"]
          /\ apc' = "respond"
     ELSE /\ aloc' = [aloc EXCEPT !.s_elapsed = now - start_time]
          /\ apc' = "st_rem"
  /\ UNCHANGED <<areq, ctrlVars, runs, apiFrame>>

\* remaining = self._duration_seconds - elapsed; return max(0, int(remaining))
StRem ==
  /\ apc = "st_rem"
  /\ IF duration_seconds = NoneT
     THEN /\ aloc' = [aloc EXCEPT !.resp = "crash"]
          /\ apc' = "respond"
     ELSE /\ aloc' = [aloc EXCEPT
                        !.s_remaining = Remaining(duration_seconds, aloc.s_elapsed),
                        !.s_elapsed = NoneT]
          /\ apc' = "st_vol_check"
  /\ UNCHANGED <<areq, ctrlVars, runs, apiFrame>>

\* Fireplace.volume: if self._counter is not None ... else return 80
StVolCheck ==
  /\ apc = "st_vol_check"
  /\ IF counter
     THEN /\ apc' = "st_vol_read"
          /\ UNCHANGED aloc
     ELSE /\ aloc' = [aloc EXCEPT !.s_volume = DEFAULT_VOLUME, !.resp = "200"]
          /\ apc' = "respond"
  /\ UNCHANGED <<areq, ctrlVars, runs, apiFrame>>

\* return int(self._counter.value) (an AttributeError when the worker has
\* dropped the Counter since the test); the response is built
StVolRead ==
  /\ apc = "st_vol_read"
  /\ apc' = "respond"
  /\ IF counter
     THEN aloc' = [aloc EXCEPT !.s_volume = RatTrunc(ctr.value), !.resp = "200"]
     ELSE aloc' = [aloc EXCEPT !.resp = "crash"]
  /\ UNCHANGED <<areq, ctrlVars, runs, apiFrame>>

Status ==
  \/ HandleStatus \/ StRemCheck \/ StElapsed \/ StRem
  \/ StVolCheck \/ StVolRead

\* ------------------------------------------------------------ worker thread
\* an exception that escapes _run_loop: the thread dies where it stands
RaiseEscapes ==
  /\ wpc' = "none"
  /\ wloc' = [NoLocals EXCEPT !.exit = "fault"]

\* _run_loop: an exception raised by _animation_loop leaves the try block;
\* it is logged and the finally block follows
Raise ==
  /\ wpc' = "cl_pixels"
  /\ wloc' = [NoLocals EXCEPT !.exit = "fault"]

\* a failed initialisation that is swallowed: the animation starts anyway
RaiseInitContinues ==
  /\ wpc' = "anim_setup"
  /\ wloc' = [NoLocals EXCEPT !.exit = "init_fault"]

\* _run_loop: an exception raised by _initialize_hardware; _animation_loop
\* is skipped, the exception is logged and the finally block follows
RaiseInit ==
  /\ wpc' = "cl_pixels"
  /\ wloc' = [NoLocals EXCEPT !.exit = "init_fault"]

\* the loop is left without an exception
LeaveLoop(why) ==
  /\ wpc' = "cl_pixels"
  /\ wloc' = [NoLocals EXCEPT !.exit = why]

workerFrame == <<running, stop_event, thread, start_time, duration_seconds,
                 fade_out_seconds, lock, runs, apiVars, enc_ticks, enc, loader,
                 noise_files, lights,
                 now>>

\* _initialize_hardware: self._pixels = neopixel.NeoPixel(..., brightness=0.2)
InitPixels ==
  /\ wpc = "init_pixels"
  /\ \/ /\ pixels' = TRUE
        /\ brightness' = Rat(1, 5)
        /\ wpc' = "init_audio"
        /\ UNCHANGED wloc
     \/ /\ RaiseInit
        /\ UNCHANGED <<pixels, brightness>>
  /\ UNCHANGED <<workerFrame, fade_start_volume, audio_player, counter, ctr,
                 calls, display, audio, event_detect, late_frames>>

\* get_audio_files(AUDIO_PATH); self._audio_player = AudioPlayer(...)
InitAudio ==
  /\ wpc = "init_audio"
  /\ \/ /\ audio_player' = TRUE
        /\ audio' = NewAudioPlayer
        /\ wpc' = "init_gpio"
        /\ UNCHANGED wloc
     \/ /\ RaiseInit
        /\ UNCHANGED <<audio_player, audio>>
  /\ UNCHANGED <<workerFrame, fade_start_volume, pixels, counter, ctr, calls,
                 display, brightness, event_detect, late_frames>>

\* GPIO.setup; self._counter = Counter(...); GPIO.add_event_detect
InitGpio ==
  /\ wpc = "init_gpio"
  /\ \/ /\ counter' = TRUE
        /\ ctr' = ControllerCounter
        /\ calls' = <<>>
        /\ event_detect' = TRUE
        /\ wpc' = "init_volume"
        /\ UNCHANGED wloc
     \/ /\ RaiseInit
        /\ UNCHANGED <<counter, ctr, calls, event_detect>>
     \/ /\ counter' = TRUE
        /\ ctr' = ControllerCounter
        /\ calls' = <<>>
        /\ RaiseInit
        /\ UNCHANGED event_detect
  /\ UNCHANGED <<workerFrame, fade_start_volume, pixels, audio_player,
                 display, brightness, audio, late_frames>>

\* self._set_volume(self._counter.value)
InitVolume ==
  /\ wpc = "init_volume"
  /\ audio' = SetVolumeCb(audio, audio_player, ctr.value)
  /\ wpc' = "init_play"
  /\ UNCHANGED <<workerFrame, wloc, fade_start_volume, pixels, audio_player,
                 counter, ctr, calls, display, brightness, event_detect,
                 late_frames>>

\* self._audio_player.play(next(audio_files)): next() raises when there is
\* no track; play() starts the player process, or logs and returns when
\* the player binary or the file is missing
InitPlay ==
  /\ wpc = "init_play"
  /\ \/ /\ audio' = Play(audio)
        /\ wpc' = "anim_setup"
        /\ UNCHANGED wloc
     \/ /\ wpc' = "anim_setup"
        /\ UNCHANGED <<audio, wloc>>
     \/ /\ RaiseInit
        /\ UNCHANGED audio
  /\ UNCHANGED <<workerFrame, fade_start_volume, pixels, audio_player,
                 counter, ctr, calls, display, brightness, event_detect,
                 late_frames>>

\* _animation_loop up to the while loop: the first noise field is loaded
AnimSetup ==
  /\ wpc = "anim_setup"
  /\ \/ /\ wpc' = "loop_top"
        /\ UNCHANGED wloc
     \/ Raise
  /\ UNCHANGED <<workerFrame, fade_start_volume, pixels, audio_player,
                 counter, ctr, calls, hwVars, late_frames>>

\* a loop that never looks at the stop event
LoopTopIgnoresStop ==
  /\ wpc = "loop_top"
  /\ wpc' = "exp_read"
  /\ wloc' = [wloc EXCEPT !.current_time = now]
  /\ UNCHANGED <<workerFrame, fade_start_volume, pixels, audio_player,
                 counter, ctr, calls, hwVars, late_frames>>

\* while not self._stop_event.is_set(): current_time = time.time()
LoopTop ==
  /\ wpc = "loop_top"
  /\ IF stop_event
     THEN LeaveLoop("stop")
     ELSE /\ wpc' = "exp_read"
          /\ wloc' = [wloc EXCEPT !.current_time = now]
  /\ UNCHANGED <<workerFrame, fade_start_volume, pixels, audio_player,
                 counter, ctr, calls, hwVars, late_frames>>

\* the expiry test, current_time - self._start_time >= self._duration_seconds,
\* reads self._start_time ...
ExpRead ==
  /\ wpc = "exp_read"
  /\ wpc' = "exp_cmp"
  /\ wloc' = [wloc EXCEPT !.r_start = start_time]
  /\ UNCHANGED <<workerFrame, fade_start_volume, pixels, audio_player,
                 counter, ctr, calls, hwVars, late_frames>>

\* the expiry test with its operands swapped
ExpiredSwapped(current_time, r_start, duration) ==
  r_start - current_time >= duration

Expired(current_time, r_start, duration) == current_time - r_start >= duration

\* a fade that is looked at in the first iteration only
FadeDueOnce(current_time, last_fade_check) == last_fade_check = NoneT

\* current_time - last_fade_check >= 5.0; last_fade_check starts at 0.0,
\* the epoch, which is more than 5 s before any time.time()
FadeDue(current_time, last_fade_check) ==
  \/ last_fade_check = NoneT
  \/ current_time - last_fade_check >= FADE_CHECK_PERIOD

\* ... and then self._duration_seconds: break when elapsed >= duration;
\* otherwise _apply_fade_out is due or the frame is rendered
ExpCmp ==
  /\ wpc = "exp_cmp"
  /\ IF Expired(wloc.current_time, wloc.r_start, duration_seconds)
     THEN LeaveLoop("expired")
     ELSE /\ wpc' = IF FadeDue(wloc.current_time, wloc.last_fade_check)
                    THEN "f_guard" ELSE "render"
          /\ wloc' = [wloc EXCEPT !.r_start = NoneT]
  /\ UNCHANGED <<workerFrame, fade_start_volume, pixels, audio_player,
                 counter, ctr, calls, hwVars, late_frames>>

\* _apply_fade_out returns: last_fade_check = current_time
FadeReturn(l) ==
  [l EXCEPT !.last_fade_check = l.current_time, !.remaining = NoneT,
            !.progress = NoneRat, !.target = NoneRat]

\* _apply_fade_out: return when there is no fade window
NoFadeWindow ==
  \/ fade_out_seconds <= 0
  \/ ~counter
  \/ duration_seconds = NoneT
  \/ start_time = NoneT

FGuard ==
  /\ wpc = "f_guard"
  /\ IF NoFadeWindow
     THEN /\ wpc' = "render"
          /\ wloc' = FadeReturn(wloc)
     ELSE /\ wpc' = "f_rem1"
          /\ UNCHANGED wloc
  /\ UNCHANGED <<workerFrame, fade_start_volume, pixels, audio_player,
                 counter, ctr, calls, hwVars, late_frames>>

\* remaining = self._duration_seconds - (time.time() - self._start_time):
\* the duration and the clock are read ...
FRem1 ==
  /\ wpc = "f_rem1"
  /\ wpc' = "f_rem2"
  /\ wloc' = [wloc EXCEPT !.r_dur = duration_seconds, !.r_now = now]
  /\ UNCHANGED <<workerFrame, fade_start_volume, pixels, audio_player,
                 counter, ctr, calls, hwVars, late_frames>>

\* ... then the start time
FRem2 ==
  /\ wpc = "f_rem2"
  /\ wpc' = "f_win"
  /\ wloc' = [wloc EXCEPT !.remaining = wloc.r_dur - (wloc.r_now - start_time),
                          !.r_dur = NoneT, !.r_now = NoneT]
  /\ UNCHANGED <<workerFrame, fade_start_volume, pixels, audio_player,
                 counter, ctr, calls, hwVars, late_frames>>

\* if remaining > self._fade_out_seconds: return
FWin ==
  /\ wpc = "f_win"
  /\ IF wloc.remaining > fade_out_seconds
     THEN /\ wpc' = "render"
          /\ wloc' = FadeReturn(wloc)
     ELSE /\ wpc' = "f_anchor"
          /\ UNCHANGED wloc
  /\ UNCHANGED <<workerFrame, fade_start_volume, pixels, audio_player,
                 counter, ctr, calls, hwVars, late_frames>>

\* a capture that overwrites the anchor at every invocation in the window
FAnchorAlways ==
  /\ wpc = "f_anchor"
  /\ wpc' = "f_prog"
  /\ fade_start_volume' = ctr.value
  /\ UNCHANGED <<workerFrame, wloc, pixels, audio_player,
                 counter, ctr, calls, hwVars, late_frames>>

\* if self._fade_start_volume is None: capture the Counter value
FAnchor ==
  /\ wpc = "f_anchor"
  /\ wpc' = "f_prog"
  /\ fade_start_volume' =
       IF fade_start_volume = NoneRat THEN ctr.value ELSE fade_start_volume
  /\ UNCHANGED <<workerFrame, wloc, pixels, audio_player,
                 counter, ctr, calls, hwVars, late_frames>>

\* fade_progress = 1 - (remaining / self._fade_out_seconds)
FadeProgress(remaining, fade) ==
  RatSub(RatInt(1), RatDiv(RatInt(remaining), RatInt(fade)))

FProg ==
  /\ wpc = "f_prog"
  /\ IF fade_out_seconds = 0
     THEN Raise
     ELSE /\ wpc' = "f_target"
          /\ wloc' = [wloc EXCEPT
                        !.progress = FadeProgress(wloc.remaining, fade_out_seconds)]
  /\ UNCHANGED <<workerFrame, fade_start_volume, pixels, audio_player,
                 counter, ctr, calls, hwVars, late_frames>>

\* a target that grows with the progress of the fade
TargetVolumeRising(anchor, progress) == RatMul(anchor, progress)

\* target_volume = self._fade_start_volume * (1 - fade_progress)
TargetVolume(anchor, progress) == RatMul(anchor, RatSub(RatInt(1), progress))

FTarget ==
  /\ wpc = "f_target"
  /\ IF fade_start_volume = NoneRat
     THEN Raise
     ELSE /\ wpc' = "f_apply"
          /\ wloc' = [wloc EXCEPT
                        !.target = TargetVolume(fade_start_volume, wloc.progress),
                        !.progress = NoneRat, !.remaining = NoneT]
  /\ UNCHANGED <<workerFrame, fade_start_volume, pixels, audio_player,
                 counter, ctr, calls, hwVars, late_frames>>

\* a fade step that stores every target it computes
FadeAppliesAlways(current, target) == TRUE

\* if abs(current - target_volume) >= 1: store it and run the callbacks
FadeApplies(current, target) == RatLeq(RatInt(1), RatAbs(RatSub(current, target)))

FApply ==
  /\ wpc = "f_apply"
  /\ wpc' = "render"
  /\ wloc' = FadeReturn(wloc)
  /\ IF FadeApplies(ctr.value, wloc.target)
     THEN Notify([ctr EXCEPT !.value = wloc.target])
     ELSE UNCHANGED <<ctr, calls, audio, brightness>>
  /\ UNCHANGED <<workerFrame, fade_start_volume, pixels, audio_player,
                 counter, display, event_detect, late_frames>>

\* frames rendered while the stop event was set, counted up to 2
CountLate(n) == IF stop_event THEN IntMin(n + 1, 2) ELSE n

\* one frame: the window of the noise field is shown (show_colors), or
\* loading the next field or writing the pixels raises
Render ==
  /\ wpc = "render"
  /\ \/ /\ display' = "lit"
        /\ late_frames' = CountLate(late_frames)
        /\ wpc' = "loop_top"
        /\ wloc' = [wloc EXCEPT !.current_time = NoneT]
     \/ /\ Raise
        /\ UNCHANGED <<display, late_frames>>
  /\ UNCHANGED <<workerFrame, fade_start_volume, pixels, audio_player,
                 counter, ctr, calls, brightness, audio, event_detect>>

\* _cleanup: blank the display and drop the pixels object (its brightness
\* goes with it); the writes of a constructed strip are taken to succeed (the
\* code swallows their exceptions)
ClPixels ==
  /\ wpc = "cl_pixels"
  /\ wpc' = "cl_audio"
  /\ display' = IF pixels THEN "off" ELSE display
  /\ pixels' = FALSE
  /\ brightness' = RatInt(0)
  /\ UNCHANGED <<workerFrame, wloc, fade_start_volume, audio_player,
                 counter, ctr, calls, audio, event_detect, late_frames>>

\* _cleanup: AudioPlayer.cleanup() ends the player process; the player
\* object is dropped
ClAudio ==
  /\ wpc = "cl_audio"
  /\ wpc' = "cl_gpio"
  /\ audio' = NewAudioPlayer
  /\ audio_player' = FALSE
  /\ UNCHANGED <<workerFrame, wloc, fade_start_volume, pixels,
                 counter, ctr, calls, display, brightness, event_detect,
                 late_frames>>

\* _cleanup: GPIO.remove_event_detect, GPIO.cleanup; self._counter = None
ClGpio ==
  /\ wpc = "cl_gpio"
  /\ wpc' = "finally"
  /\ event_detect' = FALSE
  /\ counter' = FALSE
  /\ ctr' = NoCounter
  /\ calls' = <<>>
  /\ UNCHANGED <<workerFrame, wloc, fade_start_volume, pixels, audio_player,
                 display, brightness, audio, late_frames>>

\* _run_loop, finally: under the lock the run state is reset; the thread
\* ends (the way the loop was left stays on record in wloc.exit)
Finally ==
  /\ wpc = "finally"
  /\ lock = "free"
  /\ running' = FALSE
  /\ start_time' = NoneT
  /\ duration_seconds' = NoneT
  /\ wpc' = "none"
  /\ wloc' = [NoLocals EXCEPT !.exit = wloc.exit]
  /\ UNCHANGED <<stop_event, thread, fade_out_seconds, fade_start_volume,
                 lock, pixels, audio_player, counter, ctr, calls, hwVars,
                 runs, apiVars, enc_ticks, late_frames, enc, loader,
                 noise_files, lights, now>>

Worker ==
  \/ InitPixels \/ InitAudio \/ InitGpio \/ InitVolume \/ InitPlay
  \/ AnimSetup \/ LoopTop \/ ExpRead \/ ExpCmp \/ FGuard
  \/ FRem1 \/ FRem2 \/ FWin \/ FAnchor \/ FProg \/ FTarget \/ FApply
  \/ Render \/ ClPixels \/ ClAudio \/ ClGpio \/ Finally

\* ------------------------------------------------------------------ encoder
\* an encoder_callback that counts on falling clock edges only
EncoderStepFallingOnly(c, clk, dt) ==
  LET moved == IF c.CLK_Last = HIGH /\ clk = LOW
               THEN (IF dt = HIGH THEN CounterUp(c) ELSE CounterDown(c))
               ELSE c
  IN [moved EXCEPT !.CLK_Last = clk, !.dtLastState = dt]

\* encoder_callback past the debounce test, with the levels read from the
\* data and clock lines
EncoderStep(c, clk, dt) ==
  LET moved == IF clk # dt THEN CounterUp(c)
               ELSE IF dt # c.dtLastState THEN CounterDown(c)
               ELSE c
  IN [moved EXCEPT !.CLK_Last = clk, !.dtLastState = dt]

EncoderTicks(c, clk, dt) == clk # dt \/ dt # c.dtLastState

\* which of up() and down() encoder_callback calls
EncoderMove(c, clk, dt) ==
  IF clk # dt THEN "up" ELSE IF dt # c.dtLastState THEN "down" ELSE "none"

\* a debounce test that lets every callback through
DebouncedNever(e) == FALSE

\* encoder_callback: current_time - last_trigger_time[0] < debounce_ms
Debounced(e) == e.ms - e.last_trigger_time < DEBOUNCE_MS

\* time.time() * 1000 advances by a millisecond
MsTick ==
  /\ enc.ms < DEBOUNCE_MS + MaxMs
  /\ enc' = [enc EXCEPT !.ms = @ + 1]
  /\ UNCHANGED <<now, ctrlVars, ctr, calls, hwVars, workerVars, runs, apiVars,
                 enc_ticks, late_frames, loader, noise_files, lights>>

\* the clock line changes level; with event detection on GPIO.BOTH either
\* edge queues a callback
ClkEdge ==
  /\ Len(enc.pending) < MaxPending
  /\ enc' = [enc EXCEPT
              !.CLK = IF enc.CLK = HIGH THEN LOW ELSE HIGH,
              !.pending = IF event_detect
                          THEN Append(@, IF enc.CLK = HIGH THEN "falling"
                                         ELSE "rising")
                          ELSE @]
  /\ UNCHANGED <<now, ctrlVars, ctr, calls, hwVars, workerVars, runs, apiVars,
                 enc_ticks, late_frames, loader, noise_files, lights>>

\* the data line changes level
DtEdge ==
  /\ enc' = [enc EXCEPT !.DT = IF enc.DT = HIGH THEN LOW ELSE HIGH]
  /\ UNCHANGED <<now, ctrlVars, ctr, calls, hwVars, workerVars, runs, apiVars,
                 enc_ticks, late_frames, loader, noise_files, lights>>

\* encoder_callback runs for the oldest waiting edge
EncoderCallback ==
  /\ event_detect
  /\ enc.pending # <<>>
  /\ enc_ticks < MaxEncTicks
  /\ enc_ticks' = enc_ticks + 1
  /\ IF Debounced(enc)
     THEN /\ enc' = [enc EXCEPT
                       !.pending = Tail(@),
                       !.last = [edge |-> Head(enc.pending), t |-> enc.ms,
                                 accepted |-> FALSE, moved |-> "none"]]
          /\ UNCHANGED <<ctr, calls, audio, brightness>>
     ELSE /\ enc' = [enc EXCEPT
                       !.pending = Tail(@),
                       !.last_trigger_time = enc.ms,
                       !.last = [edge |-> Head(enc.pending), t |-> enc.ms,
                                 accepted |-> TRUE,
                                 moved |-> EncoderMove(ctr, enc.CLK, enc.DT)],
                       !.tick_times =
                          IF EncoderTicks(ctr, enc.CLK, enc.DT)
                          THEN Append(@, enc.ms) ELSE @]
          /\ IF EncoderTicks(ctr, enc.CLK, enc.DT)
             THEN Notify(EncoderStep(ctr, enc.CLK, enc.DT))
             ELSE /\ ctr' = EncoderStep(ctr, enc.CLK, enc.DT)
                  /\ UNCHANGED <<calls, audio, brightness>>
  /\ UNCHANGED <<ctrlVars, display, event_detect, workerVars, runs, apiVars,
                 late_frames, loader, noise_files, lights, now>>

\* encoder_callback statement by statement, as it runs on the GPIO event
\* thread next to the worker and the HTTP thread.  The debounce test and
\* the reads of the two lines; for a tick, up() or down() reads self.value
\* and computes the new value
EncoderBegin ==
  /\ event_detect
  /\ enc.pc = "idle"
  /\ enc.pending # <<>>
  /\ enc_ticks < MaxEncTicks
  /\ enc_ticks' = enc_ticks + 1
  /\ IF Debounced(enc)
     THEN enc' = [enc EXCEPT
                    !.pending = Tail(@),
                    !.last = [edge |-> Head(enc.pending), t |-> enc.ms,
                              accepted |-> FALSE, moved |-> "none"]]
     ELSE enc' = [enc EXCEPT
                    !.pending = Tail(@),
                    !.last_trigger_time = enc.ms,
                    !.last = [edge |-> Head(enc.pending), t |-> enc.ms,
                              accepted |-> TRUE,
                              moved |-> EncoderMove(ctr, enc.CLK, enc.DT)],
                    !.tick_times =
                       IF EncoderTicks(ctr, enc.CLK, enc.DT)
                       THEN Append(@, enc.ms) ELSE @,
                    !.CLK_State = enc.CLK,
                    !.DT_State = enc.DT,
                    !.base = ctr.value,
                    !.new = IF EncoderMove(ctr, enc.CLK, enc.DT) = "up"
                            THEN UpValue(ctr)
                            ELSE IF EncoderMove(ctr, enc.CLK, enc.DT) = "down"
                            THEN DownValue(ctr) ELSE NoneRat,
                    !.log = <<>>,
                    !.pc = IF EncoderTicks(ctr, enc.CLK, enc.DT)
                           THEN "store" ELSE "finish"]
  /\ UNCHANGED <<now, ctrlVars, ctr, calls, hwVars, workerVars, runs, apiVars,
                 late_frames, loader, noise_files, lights>>

\* up() / down(): self.value = the value computed
EncoderStore ==
  /\ enc.pc = "store"
  /\ ctr' = [ctr EXCEPT !.value = enc.new]
  /\ enc' = [enc EXCEPT !.pc = IF ctr.callbacks = <<>> THEN "finish"
                                ELSE "notify"]
  /\ UNCHANGED <<now, ctrlVars, calls, hwVars, workerVars, runs, apiVars,
                 enc_ticks, late_frames, loader, noise_files, lights>>

\* run_callbacks: the next fun(self.value), with the value read now
EncoderNotify ==
  /\ enc.pc = "notify"
  /\ LET i == Len(enc.log) + 1
         entry == [cb |-> ctr.callbacks[i], value |-> ctr.value]
     IN /\ audio' = AudioAfter(audio, audio_player, <<entry>>)
        /\ brightness' = BrightnessAfter(brightness, pixels, <<entry>>)
        /\ calls' = IF i = 1 THEN <<entry>> ELSE Append(calls, entry)
        /\ enc' = [enc EXCEPT !.log = Append(@, entry),
                              !.pc = IF i = Len(ctr.callbacks) THEN "finish"
                                     ELSE "notify"]
  /\ UNCHANGED <<now, ctrlVars, ctr, display, event_detect, workerVars, runs,
                 apiVars, enc_ticks, late_frames, loader, noise_files, lights>>

\* counter.CLK_Last = CLK_State; counter.dtLastState = DT_State
EncoderFinish ==
  /\ enc.pc = "finish"
  /\ ctr' = [ctr EXCEPT !.CLK_Last = enc.CLK_State,
                        !.dtLastState = enc.DT_State]
  /\ enc' = [enc EXCEPT !.pc = "idle", !.CLK_State = NoneT, !.DT_State = NoneT,
                        !.base = NoneRat, !.new = NoneRat]
  /\ UNCHANGED <<now, ctrlVars, calls, hwVars, workerVars, runs, apiVars,
                 enc_ticks, late_frames, loader, noise_files, lights>>

EncoderThread == EncoderBegin \/ EncoderStore \/ EncoderNotify \/ EncoderFinish

\* ------------------------------------------------------ Counter on its own
\* callback lists a Counter is built with
CallbackLists ==
  {<<>>, <<"_set_volume">>, <<"_set_brightness">>,
   <<"_set_volume", "_set_brightness">>, <<"_set_brightness", "_set_volume">>}

\* Counter objects as the program builds them: value inside the range,
\* positive step (whole and half values, as in Counter(value=0.5,
\* range=(0, 1))), and the controller's own Counter
CounterInputs ==
  {ControllerCounter} \cup
  {NewCounter(Rat(v, 2), RatInt(lo), RatInt(hi), RatInt(step), cbs) :
     lo \in 0..1, hi \in 0..MaxHi, v \in 0..(2 * MaxHi),
     step \in 1..MaxStep, cbs \in CallbackLists}

\* a Counter has been constructed; the controller is idle
CounterInit ==
  /\ ctr \in {c \in CounterInputs : RatLeq(c.lo, c.value) /\ RatLeq(c.value, c.hi)}
  /\ now = 0
  /\ running = FALSE
  /\ stop_event = FALSE
  /\ thread = 0
  /\ start_time = NoneT
  /\ duration_seconds = NoneT
  /\ fade_out_seconds = 0
  /\ fade_start_volume = NoneRat
  /\ lock = "free"
  /\ pixels = FALSE
  /\ audio_player = FALSE
  /\ counter = FALSE
  /\ calls = <<>>
  /\ display = "off"
  /\ brightness = RatInt(0)
  /\ audio = NewAudioPlayer
  /\ event_detect = FALSE
  /\ wpc = "none"
  /\ wloc = NoLocals
  /\ runs = 0
  /\ apc = "ready"
  /\ areq = NoRequest
  /\ aloc = NoApiLocals
  /\ enc_ticks = 0
  /\ late_frames = 0
  /\ enc = NewEncoder
  /\ loader = NewLoader
  /\ noise_files = NoNoiseFiles
  /\ lights = NoLights

counterFrame == <<ctrlVars, display, event_detect, workerVars, runs, apiVars,
                  enc_ticks, late_frames, enc, loader, noise_files, lights, now>>

\* counter.up()
CallUp ==
  /\ Notify(CounterUp(ctr))
  /\ UNCHANGED counterFrame

\* counter.down()
CallDown ==
  /\ Notify(CounterDown(ctr))
  /\ UNCHANGED counterFrame

NextCounter == CallUp \/ CallDown

SpecCounter == CounterInit /\ [][NextCounter]_vars

\* ------------------------------------------------------ BackgroundNoiseLoader
\* background threads that have not finished
InFlight(l) ==
  {i \in 1..Len(l.threads) : l.threads[i] \in {"load", "store", "clear"}}

loaderFrame == <<now, ctrlVars, ctr, calls, hwVars, workerVars, runs, apiVars,
                 enc_ticks, late_frames, enc, noise_files, lights>>

\* get_noise: with self._lock
GetLock ==
  /\ loader.pc = "idle"
  /\ loader.lock = "free"
  /\ loader' = [loader EXCEPT !.pc = "g_test", !.lock = "caller", !.noise = 0]
  /\ UNCHANGED loaderFrame

\* a take that leaves the field in the buffer
TakeBufferKeeps(l) == [l EXCEPT !.noise = l.noise_buffer, !.pc = "g_release"]

\* noise = self._noise_buffer; self._noise_buffer = None
TakeBuffer(l) ==
  [l EXCEPT !.noise = l.noise_buffer, !.noise_buffer = 0, !.pc = "g_release"]

\* if self._noise_buffer is not None: take it; else load synchronously
GetTest ==
  /\ loader.pc = "g_test"
  /\ loader' = IF loader.noise_buffer # 0 THEN TakeBuffer(loader)
               ELSE [loader EXCEPT !.pc = "g_sync"]
  /\ UNCHANGED loaderFrame

\* noise = load_noise(self.noise_dir), inside the with block; a load that
\* raises leaves the block, which releases the lock, and get_noise
GetSync ==
  /\ loader.pc = "g_sync"
  /\ loader.loads < MaxLoads
  /\ \/ loader' = [loader EXCEPT !.loads = @ + 1, !.noise = loader.loads + 1,
                                  !.pc = "g_release"]
     \/ loader' = [loader EXCEPT !.loads = @ + 1, !.lock = "free",
                                  !.pc = "raised"]
  /\ UNCHANGED loaderFrame

\* the with block ends
GetRelease ==
  /\ loader.pc = "g_release"
  /\ loader' = [loader EXCEPT !.lock = "free", !.pc = "s_test"]
  /\ UNCHANGED loaderFrame

\* start_loading: if self._loading: return
StartLoadingTest ==
  /\ loader.pc = "s_test"
  /\ loader' = [loader EXCEPT !.pc = IF loader.loading THEN "g_return"
                                     ELSE "s_set"]
  /\ UNCHANGED loaderFrame

\* self._loading = True
StartLoadingSet ==
  /\ loader.pc = "s_set"
  /\ loader' = [loader EXCEPT !.loading = TRUE, !.pc = "s_spawn"]
  /\ UNCHANGED loaderFrame

\* threading.Thread(target=self._load_noise).start()
StartLoadingSpawn ==
  /\ loader.pc = "s_spawn"
  /\ loader' = [loader EXCEPT !.threads = Append(@, "load"),
                              !.field = Append(@, 0), !.pc = "g_return"]
  /\ UNCHANGED loaderFrame

\* return noise
GetReturn ==
  /\ loader.pc = "g_return"
  /\ loader' = [loader EXCEPT !.handed = Append(@, loader.noise),
                              !.pc = "idle"]
  /\ UNCHANGED loaderFrame

\* _load_noise: noise = load_noise(self.noise_dir); a load that raises
\* ends the thread
BgLoad ==
  /\ loader.loads < MaxLoads
  /\ \E i \in 1..Len(loader.threads) :
       /\ loader.threads[i] = "load"
       /\ \/ loader' = [loader EXCEPT !.loads = @ + 1,
                                       !.field[i] = loader.loads + 1,
                                       !.threads[i] = "store"]
          \/ loader' = [loader EXCEPT !.loads = @ + 1,
                                       !.threads[i] = "failed"]
  /\ UNCHANGED loaderFrame

\* with self._lock: self._noise_buffer = noise
BgStore ==
  /\ loader.lock = "free"
  /\ \E i \in 1..Len(loader.threads) :
       /\ loader.threads[i] = "store"
       /\ loader' = [loader EXCEPT !.lock = "bg",
                                   !.noise_buffer = loader.field[i],
                                   !.threads[i] = "clear"]
  /\ UNCHANGED loaderFrame

\* self._loading = False; the with block ends
BgClear ==
  /\ \E i \in 1..Len(loader.threads) :
       /\ loader.threads[i] = "clear"
       /\ loader' = [loader EXCEPT !.lock = "free", !.loading = FALSE,
                                   !.threads[i] = "done"]
  /\ UNCHANGED loaderFrame

NextLoader ==
  \/ GetLock \/ GetTest \/ GetSync \/ GetRelease
  \/ StartLoadingTest \/ StartLoadingSet \/ StartLoadingSpawn \/ GetReturn
  \/ BgLoad \/ BgStore \/ BgClear

\* a fresh loader, as _animation_loop builds it, whose get_noise is called
\* again and again
SpecLoader == Init /\ [][NextLoader]_vars

\* ------------------------------------------------------------- noise files
\* the orders in which a directory of n files can be listed
Listings(n) ==
  {l \in [1..n -> 0..(n - 1)] : \A i, j \in 1..n : i # j => l[i] # l[j]}

noiseFrame == <<now, ctrlVars, ctr, calls, hwVars, workerVars, runs, apiVars,
                enc_ticks, late_frames, enc, loader, lights>>

\* generate_noise_files(dir, n_files, ...) on an empty directory: file
\* noise_k.npy holds the k-th field; os.listdir returns the names in an
\* order of the file system's choosing
GenerateNoiseFiles ==
  /\ noise_files.n_files = 0
  /\ \E n \in 1..MaxFiles : \E l \in Listings(n) :
       noise_files' = [NoNoiseFiles EXCEPT !.n_files = n,
                                          !.content = [k \in 1..n |-> k - 1],
                                          !.listing = l]
  /\ UNCHANGED noiseFrame

\* files[index] as Python indexes a list: positions 0..len-1, and
\* -len..-1 counted from the end
InList(nf, index) == index >= 0 - Len(nf.listing) /\ index < Len(nf.listing)

\* files = os.listdir(dir); filename = files[index]: the number of the file
\* load_noise opens
FileAt(nf, index) ==
  IF index >= 0 THEN nf.listing[index + 1]
  ELSE nf.listing[Len(nf.listing) + index + 1]

\* the index arguments tried on a directory of n files
IndexInputs(n) == (0 - (n + 1))..(n + 1)

\* load_noise(dir, index) after index has its value: the assertion, the
\* list access, np.load
LoadAt(nf, how, index) ==
  IF ~(index < Len(nf.listing))
  THEN [nf EXCEPT !.call = how, !.index = index,
                  !.result = "AssertionError", !.array = NoneT]
  ELSE IF ~InList(nf, index)
  THEN [nf EXCEPT !.call = how, !.index = index,
                  !.result = "IndexError", !.array = NoneT]
  ELSE [nf EXCEPT !.call = how, !.index = index, !.result = "field",
                  !.array = nf.content[FileAt(nf, index) + 1]]

\* load_noise(dir, index=i), and load_noise(dir) with
\* index = random.randint(0, len(files) - 1), which raises on an empty range
LoadNoise ==
  /\ \/ \E i \in IndexInputs(noise_files.n_files) :
          noise_files' = LoadAt(noise_files, "index", i)
     \/ IF noise_files.n_files = 0
        THEN noise_files' = [noise_files EXCEPT
                               !.call = "random", !.index = NoneT,
                               !.result = "ValueError", !.array = NoneT]
        ELSE \E i \in 0..(noise_files.n_files - 1) :
               noise_files' = LoadAt(noise_files, "random", i)
  /\ UNCHANGED noiseFrame

NextNoise == GenerateNoiseFiles \/ LoadNoise

SpecNoise == Init /\ [][NextNoise]_vars

\* ---------------------------------------------------------------- ColorMap
lightsFrame == <<now, ctrlVars, ctr, calls, hwVars, workerVars, runs, apiVars,
                 enc_ticks, late_frames, enc, loader, noise_files>>

\* a colour string is the sequence of its six hexadecimal digits;
\* hex_to_rgb reads them two by two in base 16
hex_to_rgb(hex) ==
  <<16 * hex[1] + hex[2], 16 * hex[3] + hex[4], 16 * hex[5] + hex[6]>>

HEX_PALETTE ==
  << <<1, 15, 0, 9, 0, 0>>, <<5, 4, 3, 7, 0, 11>>, <<7, 5, 4, 11, 0, 3>>,
     <<8, 14, 5, 3, 1, 8>>, <<10, 13, 5, 12, 0, 0>>, <<13, 9, 7, 11, 0, 9>>,
     <<15, 10, 9, 10, 2, 12>>, <<15, 12, 11, 3, 0, 8>> >>

\* rgb_palette = [hex_to_rgb(color) for color in HEX_PALETTE]
rgb_palette == [i \in 1..Len(HEX_PALETTE) |-> hex_to_rgb(HEX_PALETTE[i])]

\* the palettes a ColorMap is built from: the controller's, one colour,
\* black to white, and one whose channels rise and fall
Palettes ==
  {rgb_palette,
   << <<0, 0, 0>> >>,
   << <<0, 0, 0>>, <<255, 255, 255>> >>,
   << <<255, 0, 10>>, <<0, 255, 20>>, <<31, 9, 0>> >>}

\* the exponents for which the gamma table is computed exactly
Gammas == {1, 2}

\* the temperatures: multiples of 1/MaxTemp from below 0 to above 1
Temperatures == {Rat(k, MaxTemp) : k \in (0 - 2)..(MaxTemp + 2)}

RECURSIVE Pow(_, _)
Pow(b, e) == IF e = 0 THEN 1 ELSE b * Pow(b, e - 1)

\* np.floor
RatFloor(a) == a.n \div a.d
\* x % 1
RatMod1(a) == RatSub(a, RatInt(RatFloor(a)))
\* np.round: to the nearest integer, a tie to the even one
RatRound(a) ==
  LET f == RatFloor(a)
      r == RatMod1(a)
      half == Rat(1, 2)
  IN IF RatLt(r, half) THEN f
     ELSE IF RatLt(half, r) THEN f + 1
     ELSE IF f % 2 = 0 THEN f ELSE f + 1
\* x.clip(lo, hi)
RatClip(x, lo, hi) == RatMin(RatMax(x, lo), hi)

\* a gamma table that rounds to the nearest integer
GammaTableRound(gamma) ==
  [value \in 0..255 |->
     RatRound(Rat(255 * Pow(value, gamma), Pow(255, gamma)))]

\* generate_gamma_correction_table: int(255 * (value / 255) ** gamma)
GammaTable(gamma) ==
  [value \in 0..255 |->
     RatTrunc(Rat(255 * Pow(value, gamma), Pow(255, gamma)))]

\* the palette without the repeated last entry
ExtendedPaletteBare(palette) == palette

\* palette + [palette[-1]]
ExtendedPalette(palette) == Append(palette, palette[Len(palette)])

\* ColorMap.__init__
NewColorMap(palette, gamma) ==
  [palette |-> palette, ext_palette |-> ExtendedPalette(palette),
   gamma |-> gamma, ncols |-> Len(palette)]

\* numpy indexing of an array of length n: 0-based, a negative index counts
\* from the end, anything else is an IndexError
InArray(n, i) == i >= 0 - n /\ i < n
ArrayAt(arr, i) == IF i >= 0 THEN arr[i + 1] ELSE arr[Len(arr) + i + 1]

\* interpolate_two_colors: np.round(color1 + (color2 - color1) * x)
InterpolateTwoColors(x, color1, color2) ==
  [k \in 1..3 |->
     RatRound(RatAdd(RatInt(color1[k]),
                     RatMul(RatInt(color2[k] - color1[k]), x)))]

\* gamma_correction: gamma_correction_table[color]
GammaCorrection(cm, color) ==
  [k \in 1..3 |-> GammaTable(cm.gamma)[IF color[k] >= 0 THEN color[k]
                                         ELSE 256 + color[k]]]

\* ColorMap.__call__ on one temperature
ColorMapCall(cm, x0) ==
  LET x == RatClip(x0, RatInt(0), RatInt(1))
      scaled == RatMul(x, RatInt(cm.ncols - 1))
      start_color_index == RatFloor(scaled)
      rebased_x == RatMod1(scaled)
      n == Len(cm.ext_palette)
      seen == [NoColor EXCEPT !.x = x0, !.start = start_color_index,
                              !.rebased = rebased_x]
  IN IF ~(InArray(n, start_color_index) /\ InArray(n, start_color_index + 1))
     THEN [seen EXCEPT !.result = "IndexError"]
     ELSE LET return_color ==
                InterpolateTwoColors(rebased_x,
                                     ArrayAt(cm.ext_palette, start_color_index),
                                     ArrayAt(cm.ext_palette, start_color_index + 1))
          IN IF \E k \in 1..3 : ~InArray(256, return_color[k])
             THEN [seen EXCEPT !.color = return_color, !.result = "IndexError"]
             ELSE [seen EXCEPT !.color = return_color, !.result = "ok",
                               !.out = GammaCorrection(cm, return_color)]

\* colormap = ColorMap(palette, gamma)
BuildColorMap ==
  /\ lights.cmap.ncols = 0
  /\ \E palette \in Palettes : \E gamma \in Gammas :
       lights' = [lights EXCEPT !.cmap = NewColorMap(palette, gamma)]
  /\ UNCHANGED lightsFrame

\* colormap(x)
ApplyColorMap ==
  /\ lights.cmap.ncols > 0
  /\ \E x \in Temperatures :
       lights' = [lights EXCEPT !.call = ColorMapCall(lights.cmap, x)]
  /\ UNCHANGED lightsFrame

NextColorMap == BuildColorMap \/ ApplyColorMap

SpecColorMap == Init /\ [][NextColorMap]_vars

\* ------------------------------------------------------------- PerlinNoise
\* floats that are not numbers of the model's exact arithmetic
Inf == [n |-> 1, d |-> 0]
NaN == [n |-> 0, d |-> 0]
IsNaN(a) == a.d = 0 /\ a.n = 0
\* IEEE 754 product and sum: exact on finite values, inf * 0 and
\* inf - inf are NaN, NaN is kept
FloatMul(a, b) ==
  IF IsNaN(a) \/ IsNaN(b) THEN NaN
  ELSE IF a.d = 0 \/ b.d = 0
       THEN IF a.n = 0 \/ b.n = 0 THEN NaN
            ELSE [n |-> IF (a.n > 0) = (b.n > 0) THEN 1 ELSE 0 - 1, d |-> 0]
       ELSE RatMul(a, b)
FloatAdd(a, b) ==
  IF IsNaN(a) \/ IsNaN(b) THEN NaN
  ELSE IF a.d = 0 /\ b.d = 0 THEN (IF a.n = b.n THEN a ELSE NaN)
  ELSE IF a.d = 0 THEN a
  ELSE IF b.d = 0 THEN b
  ELSE RatAdd(a, b)
\* a value that is a number between 0 and 1
InUnit(a) == a.d > 0 /\ RatLeq(RatInt(0), a) /\ RatLeq(a, RatInt(1))

\* np.ceil
RatCeil(a) == 0 - RatFloor(RatSub(RatInt(0), a))

\* the angles np.random.rand is taken to draw, as (cos, sin): eight
\* directions with rational coordinates
Directions ==
  << <<Rat(1, 1), Rat(0, 1)>>, <<Rat(3, 5), Rat(4, 5)>>,
     <<Rat(0, 1), Rat(1, 1)>>, <<Rat(0 - 4, 5), Rat(3, 5)>>,
     <<Rat(0 - 1, 1), Rat(0, 1)>>, <<Rat(0 - 3, 5), Rat(0 - 4, 5)>>,
     <<Rat(0, 1), Rat(0 - 1, 1)>>, <<Rat(4, 5), Rat(0 - 3, 5)>> >>

\* the global generator of numpy as a small congruential generator:
\* np.random.seed sets its state, every number drawn advances it
SeedKeeps(rng, seed) == rng
Seed(rng, seed) == seed % 64
RngNext(rng) == (5 * rng + 3) % 64
RngValue(rng) == (rng \div 2) % 8
RECURSIVE RngAfter(_, _)
RngAfter(rng, n) == IF n = 0 THEN rng ELSE RngAfter(RngNext(rng), n - 1)
\* np.random.rand(rows, rows): the numbers in row-major order
Rand(rng, rows) ==
  [i \in 1..rows |->
     [j \in 1..rows |-> RngValue(RngAfter(rng, (i - 1) * rows + j))]]

\* the inputs of PerlinNoise(shape, repetition_period, seed) and of render
Shapes == {<<1, 1>>, <<3, 3>>}
Periods == {1, 2}
Seeds == {1, 42}
Octaves == {0, 2, 5}
PixelOffsets == {<<0, 0>>, <<0 - 3, 3>>}
Persistences == {Rat(1, 2), Rat(2, 1), Inf}
RelativeFactors == {Rat(1, 2), Rat(1, 1)}
RenderArgs ==
  [octaves : Octaves, pixel_offset : PixelOffsets,
   persistence : Persistences, relative_factor : RelativeFactors]

\* PerlinNoise.__init__ when the global generator is in state rng
NewPerlinNoise(rng, shape, repetition_period, seed) ==
  [shape |-> shape, repetition_period |-> repetition_period, seed |-> seed,
   angles |-> Rand(Seed(rng, seed), repetition_period + 1),
   first |-> <<>>, last |-> <<>>]

\* node_vectors[x, y] = (cos(angles[x, y]), sin(angles[x, y]))
NodeVector(gen, x, y) == Directions[gen.angles[x + 1][y + 1] + 1]

\* smooth_step: 6 t^5 - 15 t^4 + 10 t^3
smooth_step(t) ==
  LET t3 == RatMul(t, RatMul(t, t))
      t4 == RatMul(t3, t)
      t5 == RatMul(t4, t)
  IN RatAdd(RatSub(RatMul(RatInt(6), t5), RatMul(RatInt(15), t4)),
            RatMul(RatInt(10), t3))

\* np.linspace(0, stop, num)[k]
Linspace(stop, num, k) ==
  IF num = 1 THEN RatInt(0) ELSE RatDiv(RatMul(RatInt(k), stop), RatInt(num - 1))

\* np.sum(v * g, 2)
Dot(vx, vy, g) == RatAdd(RatMul(vx, g[1]), RatMul(vy, g[2]))

\* generate_perlin_noise_2d at pixel (i, j), 0-based
PerlinAt(gen, cell_size, pixel_offset, i, j) ==
  LET one == RatInt(1)
      gx == RatAdd(Linspace(RatDiv(RatInt(gen.shape[1]), cell_size[1]),
                            gen.shape[1], i),
                   RatMul(RatDiv(one, cell_size[1]), RatInt(pixel_offset[1])))
      gy == RatAdd(Linspace(RatDiv(RatInt(gen.shape[2]), cell_size[2]),
                            gen.shape[2], j),
                   RatMul(RatDiv(one, cell_size[2]), RatInt(pixel_offset[2])))
      x_floor == RatFloor(gx) % gen.repetition_period
      x_ceil == RatCeil(gx) % gen.repetition_period
      y_floor == RatFloor(gy) % gen.repetition_period
      y_ceil == RatCeil(gy) % gen.repetition_period
      ix == RatMod1(gx)
      iy == RatMod1(gy)
      n00 == Dot(ix, iy, NodeVector(gen, x_floor, y_floor))
      n10 == Dot(RatSub(ix, one), iy, NodeVector(gen, x_ceil, y_floor))
      n01 == Dot(ix, RatSub(iy, one), NodeVector(gen, x_floor, y_ceil))
      n11 == Dot(RatSub(ix, one), RatSub(iy, one), NodeVector(gen, x_ceil, y_ceil))
      sx == smooth_step(ix)
      sy == smooth_step(iy)
      n0 == RatAdd(RatMul(n00, RatSub(one, sx)), RatMul(sx, n10))
      n1 == RatAdd(RatMul(n01, RatSub(one, sx)), RatMul(sx, n11))
  IN RatAdd(RatMul(RatSub(one, sy), n0), RatMul(sy, n1))

generate_perlin_noise_2d(gen, cell_size, pixel_offset) ==
  [i \in 1..gen.shape[1] |->
     [j \in 1..gen.shape[2] |->
        PerlinAt(gen, cell_size, pixel_offset, i - 1, j - 1)]]

\* a render without the final clip
ClipNone(x) == x

\* clip: np.clip(noise, 0, 1); a NaN stays a NaN
Clip(x) ==
  IF IsNaN(x) THEN NaN
  ELSE IF x.d = 0 THEN (IF x.n > 0 THEN RatInt(1) ELSE RatInt(0))
  ELSE RatClip(x, RatInt(0), RatInt(1))

\* postprocess: clip(1.2 * (noise + 0.45))
Postprocess(noise) ==
  [i \in 1..Len(noise) |->
     [j \in 1..Len(noise[i]) |->
        Clip(FloatMul(Rat(6, 5), FloatAdd(noise[i][j], Rat(9, 20))))]]

\* render's loop from octave mode on
RECURSIVE RenderLoop(_, _, _, _, _, _)
RenderLoop(gen, args, mode, size, amplitude, noise) ==
  IF mode >= args.octaves THEN noise
  ELSE LET cell_size == <<RatInt(size), RatMul(RatInt(size), args.relative_factor)>>
       IN IF RatLt(RatMin(cell_size[1], cell_size[2]), RatInt(1)) THEN noise
          ELSE LET new_noise ==
                     generate_perlin_noise_2d(gen, cell_size, args.pixel_offset)
               IN RenderLoop(gen, args, mode + 1, size \div 2,
                             FloatMul(amplitude, args.persistence),
                             [i \in 1..Len(noise) |->
                                [j \in 1..Len(noise[i]) |->
                                   FloatAdd(noise[i][j],
                                            FloatMul(amplitude, new_noise[i][j]))]])

\* the octaves render adds before its loop ends or breaks
RECURSIVE OctavesAdded(_, _, _, _)
OctavesAdded(gen, args, mode, size) ==
  IF mode >= args.octaves THEN mode
  ELSE IF RatLt(RatMin(RatInt(size), RatMul(RatInt(size), args.relative_factor)),
                RatInt(1))
       THEN mode
       ELSE OctavesAdded(gen, args, mode + 1, size \div 2)

\* PerlinNoise.render
PerlinRender(gen, args) ==
  Postprocess(RenderLoop(gen, args, 0, IntMin(gen.shape[1], gen.shape[2]),
                         RatInt(1),
                         [i \in 1..gen.shape[1] |->
                            [j \in 1..gen.shape[2] |-> RatInt(0)]]))

Slots == {"a", "b"}
Generator(l, slot) == IF slot = "a" THEN l.a ELSE l.b
WithGenerator(l, slot, gen) ==
  IF slot = "a" THEN [l EXCEPT !.a = gen] ELSE [l EXCEPT !.b = gen]

\* perlin = PerlinNoise(shape, repetition_period, seed): the global
\* generator is left after the numbers drawn
BuildPerlin ==
  /\ \E slot \in Slots :
       /\ Generator(lights, slot) = NoGenerator
       /\ \E shape \in Shapes : \E period \in Periods : \E seed \in Seeds :
            lights' =
              [WithGenerator(lights, slot,
                             NewPerlinNoise(lights.rng, shape, period, seed))
                 EXCEPT !.rng = RngAfter(Seed(lights.rng, seed),
                                         (period + 1) * (period + 1))]
  /\ UNCHANGED lightsFrame

\* perlin.render(octaves, pixel_offset, persistence, relative_factor): the
\* first call of a behaviour chooses the arguments, the later ones repeat them
RenderPerlin ==
  /\ \E slot \in Slots :
       LET gen == Generator(lights, slot)
       IN /\ gen # NoGenerator
          /\ \E args \in (IF lights.args = NoArgs THEN RenderArgs
                           ELSE {lights.args}) :
               LET field == PerlinRender(gen, args)
               IN lights' =
                    [WithGenerator(lights, slot,
                                   [gen EXCEPT !.first = IF gen.first = <<>> THEN field
                                                         ELSE gen.first,
                                               !.last = field])
                       EXCEPT !.args = args]
  /\ UNCHANGED lightsFrame

NextPerlin == BuildPerlin \/ RenderPerlin

SpecPerlin == Init /\ [][NextPerlin]_vars

\* ---------------------------------------------------- the render loop's scan
SCREEN_SIZE == <<8, 8>>

\* window = SCREEN_SIZE[1]
window == SCREEN_SIZE[2]

\* the numbers of rows of the fields in the noise directory: the length
\* generate_noise_files was called with
FieldRows == {1, 7, 8, 9, 11}

\* a scan limit that is the number of rows itself
MaxStepOfRows(rows) == rows

\* max_step = noise.shape[0] - window
MaxStepOf(rows) == rows - window

\* noise[step : (step + window)] on a field of that many rows: a slice ends
\* where the array ends
Slice(rows, step) == <<IntMin(step, rows), IntMin(step + window, rows)>>

\* step += 1; temperature = screen * test_mask; show_colors(...).  The
\* product of a (k, 8) screen with the (8, 8) mask exists for k = 8, and for
\* k = 1 by broadcasting; any other k raises ValueError
ShowScreen(sc) ==
  LET k == sc.screen[2] - sc.screen[1]
  IN IF k = SCREEN_SIZE[2] \/ k = 1
     THEN [sc EXCEPT !.step = @ + 1, !.frames = @ + 1, !.result = "shown"]
     ELSE [sc EXCEPT !.step = @ + 1, !.result = "ValueError"]

\* noise = noise_loader.get_noise(); window = SCREEN_SIZE[1];
\* max_step = noise.shape[0] - window; step = 0
ScanSetup ==
  /\ lights.scan.fetched = 0
  /\ \E r \in FieldRows :
       lights' = [lights EXCEPT !.scan = [NoScan EXCEPT !.rows = r,
                                                       !.max_step = MaxStepOf(r),
                                                       !.step = 0,
                                                       !.fetched = 1]]
  /\ UNCHANGED lightsFrame

\* one iteration's "update animation frame": the next window of the active
\* field, or a new field from the loader and its first window
ScanFrame ==
  /\ lights.scan.fetched > 0
  /\ lights.scan.result # "ValueError"
  /\ LET sc == lights.scan
     IN IF sc.step < sc.max_step
        THEN lights' = [lights EXCEPT !.scan =
               ShowScreen([sc EXCEPT !.screen = Slice(sc.rows, sc.step)])]
        ELSE /\ sc.fetched < MaxFields
             /\ \E r \in FieldRows :
                  lights' = [lights EXCEPT !.scan =
                    ShowScreen([sc EXCEPT
                      !.step = 0, !.rows = r, !.max_step = MaxStepOf(r),
                      !.screen = Slice(r, 0), !.frames = 0,
                      !.fetched = @ + 1,
                      !.dropped = Append(@, [rows |-> sc.rows,
                                             frames |-> sc.frames])])]
  /\ UNCHANGED lightsFrame

NextScan == ScanSetup \/ ScanFrame

SpecScan == Init /\ [][NextScan]_vars

\* ----------------------------------------------------- encoder on its own
\* a Counter built as the controller builds it, with encoder_callback
\* registered for both edges of the clock line
EncoderInit ==
  /\ ctr = ControllerCounter
  /\ event_detect = TRUE
  /\ enc = NewEncoder
  /\ loader = NewLoader
  /\ noise_files = NoNoiseFiles
  /\ lights = NoLights
  /\ now = 0
  /\ running = FALSE
  /\ stop_event = FALSE
  /\ thread = 0
  /\ start_time = NoneT
  /\ duration_seconds = NoneT
  /\ fade_out_seconds = 0
  /\ fade_start_volume = NoneRat
  /\ lock = "free"
  /\ pixels = FALSE
  /\ audio_player = FALSE
  /\ counter = TRUE
  /\ calls = <<>>
  /\ display = "off"
  /\ brightness = RatInt(0)
  /\ audio = NewAudioPlayer
  /\ wpc = "none"
  /\ wloc = NoLocals
  /\ runs = 0
  /\ apc = "ready"
  /\ areq = NoRequest
  /\ aloc = NoApiLocals
  /\ enc_ticks = 0
  /\ late_frames = 0

NextEncoder == MsTick \/ ClkEdge \/ DtEdge \/ EncoderCallback

SpecEncoder == EncoderInit /\ [][NextEncoder]_vars

\* ------------------------------------------------- _apply_fade_out on its own
\* runs of 10 minutes started at time 0 by start(10, f) with f = -1, 0, 2
\* and 10 minutes: <<duration_seconds, fade_out_seconds>>
FadeRuns == {<<600, 0 - 60>>, <<600, 0>>, <<600, 120>>, <<600, 600>>}
\* the loop's time.time() of an iteration that is not expired, and the time
\* that passes until _apply_fade_out reads the clock itself
FadeLoopTimes == {5, 475, 480, 540, 595}
FadeDelays == {0, 5, 10}
\* Counter values: as built, and as set_volume, the encoder or an earlier
\* fade step left them
FadeCounterValues == {0, 41, 80, 100}

\* a run in its animation loop, about to call _apply_fade_out; the anchor
\* can be set only if the previous check, 5 s earlier, was in the window
FadeInit ==
  \E r \in FadeRuns, ct \in FadeLoopTimes, dl \in FadeDelays,
     v \in FadeCounterValues, anchored \in BOOLEAN :
    /\ anchored => (r[2] > 0 /\ r[1] - (ct - FADE_CHECK_PERIOD) <= r[2])
    /\ now = ct + dl
    /\ running = TRUE
    /\ stop_event = FALSE
    /\ thread = 1
    /\ start_time = 0
    /\ duration_seconds = r[1]
    /\ fade_out_seconds = r[2]
    /\ fade_start_volume = IF anchored THEN RatInt(COUNTER_INIT) ELSE NoneRat
    /\ lock = "free"
    /\ pixels = TRUE
    /\ audio_player = TRUE
    /\ counter = TRUE
    /\ ctr = [ControllerCounter EXCEPT !.value = RatInt(v)]
    /\ calls = IF v = COUNTER_INIT THEN <<>>
               ELSE RunCallbacks([ControllerCounter EXCEPT !.value = RatInt(v)])
    /\ display = "lit"
    /\ brightness = IF v = COUNTER_INIT THEN Rat(1, 5)
                    ELSE SetBrightnessCb(Rat(1, 5), TRUE, RatInt(v))
    /\ audio = Play([NewAudioPlayer EXCEPT !.volume = v])
    /\ event_detect = TRUE
    /\ wpc = "f_guard"
    /\ wloc = [NoLocals EXCEPT !.current_time = ct,
                               !.last_fade_check = ct - FADE_CHECK_PERIOD]
    /\ runs = 1
    /\ apc = "ready"
    /\ areq = NoRequest
    /\ aloc = NoApiLocals
    /\ enc_ticks = 0
    /\ late_frames = 0
    /\ enc = NewEncoder
    /\ loader = NewLoader
    /\ noise_files = NoNoiseFiles
    /\ lights = NoLights

NextFade ==
  FGuard \/ FRem1 \/ FRem2 \/ FWin \/ FAnchor \/ FProg \/ FTarget \/ FApply

SpecFade == FadeInit /\ [][NextFade]_vars

\* ------------------------------------------------------------ specification
\* the controller with its HTTP surface and worker thread
Next == Tick \/ Api \/ Worker

Spec == Init /\ [][Next]_vars

\* the controller with start, stop and status requests
NextStatus ==
  \/ Tick
  \/ HandleStart \/ StartLock \/ UpdDuration \/ UpdFade \/ UpdAnchor \/ UpdTime
  \/ StartSpawn \/ StopCheck \/ StopSet \/ StopJoin \/ ApiRespond
  \/ Status
  \/ Worker

SpecStatus == Init /\ [][NextStatus]_vars

\* the controller with its HTTP surface and direct set_volume calls
NextVolume == Tick \/ Api \/ CallSetVolume \/ Worker

SpecVolume == Init /\ [][NextVolume]_vars

\* the controller under fair scheduling, for runs that are started once and
\* then left alone or stopped: valid start requests arrive while it is Idle,
\* stop() requests at any time; the worker thread and the clock keep going,
\* and a request that has been received is served
FairRequests == {r \in Requests : r.op = "start" /\ ValidStart(r)}

FairStart == ~running /\ HandleStartOf(FairRequests)

ApiProgress == StartLock \/ StartSpawn \/ StopSet \/ StopJoin \/ ApiRespond

FairNext == Tick \/ FairStart \/ StopCheck \/ ApiProgress \/ Worker

FairSpec ==
  /\ Init
  /\ [][FairNext]_vars
  /\ WF_vars(Tick)
  /\ WF_vars(ApiProgress)
  /\ WF_vars(Worker)

\* ------------------------------------------- the Counter and its three writers
\* a run that calls _apply_fade_out while the encoder is turned and volume
\* requests arrive
NextRace ==
  \/ NextFade
  \/ ClkEdge \/ DtEdge \/ EncoderThread
  \/ HandleVolume \/ VolSet \/ ApiRespond

\* ten minutes with a fade over the last two, nine minutes in, Counter at 80
RaceInit ==
  /\ FadeInit
  /\ duration_seconds = 600
  /\ fade_out_seconds = 120
  /\ now = 540
  /\ ctr.value = RatInt(COUNTER_INIT)

SpecRace == RaceInit /\ [][NextRace]_vars

\* ------------------------------------------------------ one run after another
\* start and stop requests, with a second run after the first has ended
HandleRestart == HandleStartUpTo(Requests, MaxRestarts)

RestartLock == StartLockUpTo(MaxRestarts)

NextRestart ==
  \/ Tick \/ HandleRestart \/ RestartLock \/ UpdDuration \/ UpdFade
  \/ UpdAnchor \/ UpdTime \/ StartSpawn \/ StopCheck \/ StopSet \/ StopJoin
  \/ ApiRespond \/ Worker

SpecRestart == Init /\ [][NextRestart]_vars

\* ------------------------------------------------ live updates during a fade
\* start requests that arrive while a run is in progress:
\* <<duration_minutes, fade_out_minutes>>
UpdateInputs == {<<1, 1>>, <<10, 2>>, <<20, 20>>}

UpdateRequests ==
  {[op |-> "start", d |-> i[1], f |-> i[2], v |-> 0] : i \in UpdateInputs}

\* do_POST /start, _handle_start with a request that passes validation
HandleUpdate ==
  /\ apc = "ready"
  /\ \E r \in UpdateRequests :
       /\ ValidStart(r)
       /\ areq' = r
  /\ apc' = "start_lock"
  /\ aloc' = [NoApiLocals EXCEPT !.was_running = IsRunning]
  /\ UNCHANGED <<ctrlVars, runs, apiFrame>>

NextUpdate ==
  \/ NextFade
  \/ HandleUpdate \/ StartLock \/ UpdDuration \/ UpdFade \/ UpdAnchor \/ UpdTime
  \/ ApiRespond

\* ten minutes with a fade over the last two, about to call _apply_fade_out
UpdateInit ==
  /\ FadeInit
  /\ duration_seconds = 600
  /\ fade_out_seconds = 120

SpecUpdate == UpdateInit /\ [][NextUpdate]_vars

\* ------------------------------------------- the worker and its noise loader
\* what a step of the worker inside get_noise leaves alone
fetchFrame == <<running, stop_event, thread, start_time, duration_seconds,
                fade_out_seconds, fade_start_volume, lock, pixels,
                audio_player, counter, ctr, calls, brightness, audio,
                event_detect, runs, apiVars, enc_ticks, enc, noise_files,
                lights, now>>

\* _animation_loop calls get_noise once before the loop, on a loader it has
\* just built, and again whenever the active field is used up
FetchBegin ==
  /\ loader.pc = "idle"
  /\ \/ /\ wpc = "anim_setup"
        /\ loader' = [NewLoader EXCEPT !.pc = "g_test", !.lock = "caller"]
     \/ /\ wpc = "render"
        /\ loader.lock = "free"
        /\ loader' = [loader EXCEPT !.pc = "g_test", !.lock = "caller",
                                    !.noise = 0]
  /\ UNCHANGED <<fetchFrame, workerVars, display, late_frames>>

\* get_noise returns the field: before the loop the loop is entered; inside
\* it the first window of the field is shown
FetchReturn ==
  /\ loader.pc = "g_return"
  /\ wpc \in {"anim_setup", "render"}
  /\ loader' = [loader EXCEPT !.handed = Append(@, loader.noise), !.pc = "idle"]
  /\ wpc' = "loop_top"
  /\ IF wpc = "anim_setup"
     THEN UNCHANGED <<wloc, display, late_frames>>
     ELSE /\ display' = "lit"
          /\ late_frames' = CountLate(late_frames)
          /\ wloc' = [wloc EXCEPT !.current_time = NoneT]
  /\ UNCHANGED fetchFrame

\* a failed load whose exception is dropped: the loop goes on
FetchFailedIgnored ==
  /\ loader.pc = "raised"
  /\ wpc \in {"anim_setup", "render"}
  /\ loader' = [loader EXCEPT !.pc = "idle", !.noise = NoneT]
  /\ wpc' = "loop_top"
  /\ UNCHANGED <<fetchFrame, wloc, display, late_frames>>

\* the synchronous load_noise raised: the exception leaves get_noise (no
\* field is returned) and _animation_loop, and reaches _run_loop
FetchFailed ==
  /\ loader.pc = "raised"
  /\ wpc \in {"anim_setup", "render"}
  /\ loader' = [loader EXCEPT !.pc = "idle", !.noise = NoneT]
  /\ Raise
  /\ UNCHANGED <<fetchFrame, display, late_frames>>

\* a frame from the active field
RenderShown == loader.pc = "idle" /\ Render

\* the steps of the worker thread, get_noise included
FetchWorker ==
  \/ InitPixels \/ InitAudio \/ InitGpio \/ InitVolume \/ InitPlay
  \/ FetchBegin \/ GetTest \/ GetSync \/ GetRelease
  \/ StartLoadingTest \/ StartLoadingSet \/ StartLoadingSpawn
  \/ FetchReturn \/ FetchFailed
  \/ LoopTop \/ ExpRead \/ ExpCmp \/ FGuard
  \/ FRem1 \/ FRem2 \/ FWin \/ FAnchor \/ FProg \/ FTarget \/ FApply
  \/ RenderShown \/ ClPixels \/ ClAudio \/ ClGpio \/ Finally

NextFetch ==
  \/ FairStart \/ StartLock \/ StartSpawn \/ ApiRespond
  \/ FetchWorker
  \/ BgLoad \/ BgStore \/ BgClear

\* runs started from Idle and left alone; the worker thread keeps being
\* scheduled
SpecFetch == Init /\ [][NextFetch]_vars /\ WF_vars(FetchWorker)

\* ------------------------------------------- the end of a run and the player
monitorFrame == <<now, ctrlVars, ctr, calls, display, brightness, event_detect,
                  workerVars, runs, apiVars, enc_ticks, late_frames, enc,
                  loader, noise_files, lights>>

\* _monitor_playback reads "@P 0" from the process it was started for: the
\* track is over; on_song_end is called unless _stopping is set
MonSongEnd ==
  /\ audio.monitor = "reading"
  /\ audio.proc = "running" /\ ~audio.spawned
  /\ audio.playing
  /\ audio' = [audio EXCEPT !.playing = FALSE,
                            !.monitor = IF audio.stopping THEN "reading"
                                        ELSE "song_end"]
  /\ UNCHANGED monitorFrame

\* play_next_song: if self._audio_player is not None and not
\* self._stop_event.is_set()
MonCheck ==
  /\ audio.monitor = "song_end"
  /\ audio' = [audio EXCEPT !.monitor = IF audio_player /\ ~stop_event
                                        THEN "ensure" ELSE "reading"]
  /\ UNCHANGED monitorFrame

\* AudioPlayer.play up to _ensure_process: the file is missing or not an
\* mp3 (return); the process is running; or a process is started, which can
\* fail (return)
MonEnsure ==
  /\ audio.monitor = "ensure"
  /\ \/ audio' = [audio EXCEPT !.monitor = "reading"]
     \/ /\ audio.proc = "running"
        /\ audio' = [audio EXCEPT !.monitor = "load", !.spawned = FALSE]
     \/ /\ audio.proc # "running"
        /\ audio' = [audio EXCEPT !.proc = "running", !.live = @ + 1,
                                  !.monitor = "load", !.spawned = TRUE]
  /\ UNCHANGED monitorFrame

\* self._stopping = False; LOAD is sent if there is a process to take it.
\* The monitor thread is alive, so play() starts no other; it goes on
\* reading the process it was started for
MonLoad ==
  /\ audio.monitor = "load"
  /\ audio' = [audio EXCEPT !.stopping = FALSE,
                            !.playing = (audio.proc = "running") \/ @,
                            !.monitor = "reading"]
  /\ UNCHANGED monitorFrame

\* the process the monitor thread reads has ended: the thread ends
MonEof ==
  /\ audio.monitor = "reading"
  /\ audio.proc # "running" \/ audio.spawned
  /\ audio' = [audio EXCEPT !.monitor = "done"]
  /\ UNCHANGED monitorFrame

Monitor == MonSongEnd \/ MonCheck \/ MonEnsure \/ MonLoad \/ MonEof

\* _cleanup: if self._audio_player is not None, AudioPlayer.cleanup():
\* self._stopping = True
ClAudioStopping ==
  /\ wpc = "cl_audio"
  /\ IF audio_player
     THEN /\ audio' = [audio EXCEPT !.stopping = TRUE]
          /\ wpc' = "cl_quit"
     ELSE /\ wpc' = "cl_gpio"
          /\ UNCHANGED audio
  /\ UNCHANGED <<workerFrame, wloc, fade_start_volume, pixels, audio_player,
                 counter, ctr, calls, display, brightness, event_detect,
                 late_frames>>

\* cleanup(): if self._process is not None: QUIT, wait (or kill)
ClAudioQuit ==
  /\ wpc = "cl_quit"
  /\ IF audio.proc = "none"
     THEN /\ wpc' = "cl_player"
          /\ UNCHANGED audio
     ELSE /\ wpc' = "cl_proc"
          /\ audio' = IF audio.proc = "running"
                      THEN [audio EXCEPT !.proc = "exited", !.live = @ - 1,
                                         !.playing = FALSE]
                      ELSE audio
  /\ UNCHANGED <<workerFrame, wloc, fade_start_volume, pixels, audio_player,
                 counter, ctr, calls, display, brightness, event_detect,
                 late_frames>>

\* cleanup(): self._process = None
ClAudioDrop ==
  /\ wpc = "cl_proc"
  /\ wpc' = "cl_player"
  /\ audio' = [audio EXCEPT !.proc = "none"]
  /\ UNCHANGED <<workerFrame, wloc, fade_start_volume, pixels, audio_player,
                 counter, ctr, calls, display, brightness, event_detect,
                 late_frames>>

\* _cleanup: self._audio_player = None
ClAudioNone ==
  /\ wpc = "cl_player"
  /\ wpc' = "cl_gpio"
  /\ audio_player' = FALSE
  /\ UNCHANGED <<workerFrame, wloc, fade_start_volume, pixels, audio,
                 counter, ctr, calls, display, brightness, event_detect,
                 late_frames>>

NextAudio ==
  \/ LoopTop \/ ExpRead \/ ExpCmp \/ FGuard \/ Render
  \/ ClPixels \/ ClAudioStopping \/ ClAudioQuit \/ ClAudioDrop \/ ClAudioNone
  \/ ClGpio \/ Finally
  \/ StopCheck \/ StopSet \/ StopJoin \/ ApiRespond
  \/ Monitor

\* ten minutes without a fade, in the loop with a track playing
AudioInit ==
  /\ FadeInit
  /\ duration_seconds = 600
  /\ fade_out_seconds = 0
  /\ ctr.value = RatInt(COUNTER_INIT)

SpecAudio == AudioInit /\ [][NextAudio]_vars

\* ------------------------------------------------ one run, second by second
\* the clock advances by a second while the animation is set up (palette,
\* first noise file) and while a frame is shown and the loop sleeps, at most
\* once per frame; every other statement takes no time at this resolution
FrameTick ==
  /\ now < MaxTime
  /\ \/ wpc = "anim_setup" /\ now - start_time < MaxSetup
     \/ wpc = "render" /\ wloc.current_time = now
  /\ now' = now + 1
  /\ UNCHANGED <<ctrlVars, ctr, calls, hwVars, workerVars, runs, apiVars,
                 enc_ticks, late_frames, enc, loader, noise_files, lights>>

\* runs started from Idle by valid requests and left alone: no stop, no
\* live update, no set_volume, no encoder input
NextRun ==
  FrameTick \/ FairStart \/ StartLock \/ StartSpawn \/ ApiRespond \/ Worker

SpecRun == Init /\ [][NextRun]_vars

\* ------------------------------------------------------------- properties
InRange(c) == RatLeq(c.lo, c.value) /\ RatLeq(c.value, c.hi)

\* C1: a Counter that starts inside [min, max] stays inside it under any
\* sequence of up() and down(); up() at max and down() at min leave the value
\* at the bound
CounterStaysInRange ==
  /\ []InRange(ctr)
  /\ [][/\ (CallUp /\ ctr.value = ctr.hi) => ctr'.value = ctr.hi
        /\ (CallDown /\ ctr.value = ctr.lo) => ctr'.value = ctr.lo]_vars

\* an up() was clamped: the range is narrower than the step, callbacks have
\* run, and the value sits at max (down() would have left it at min)
CounterClampedAtMax ==
  /\ calls # <<>>
  /\ ctr.value = ctr.hi
  /\ RatLt(RatSub(ctr.hi, ctr.lo), ctr.step)

\* C2: every up() or down() notifies each registered callback exactly once,
\* in registration order, with the new value, also when the value is clamped
CallbacksOnceInOrder ==
  [][(CallUp \/ CallDown) =>
       /\ Len(calls') = Len(ctr.callbacks)
       /\ \A i \in 1..Len(ctr.callbacks) :
            /\ calls'[i].cb = ctr.callbacks[i]
            /\ calls'[i].value = ctr'.value]_vars

\* the controller's Counter sits at max and has notified the volume callback
\* first and the brightness callback second, both with the clamped value
ControllerCallbacksAtMax ==
  /\ ctr.callbacks = <<"_set_volume", "_set_brightness">>
  /\ ctr.hi = RatInt(COUNTER_MAX)
  /\ ctr.value = ctr.hi
  /\ calls = <<[cb |-> "_set_volume", value |-> ctr.hi],
               [cb |-> "_set_brightness", value |-> ctr.hi]>>

\* positions of the worker and of the HTTP thread
InitPcs == {"init_pixels", "init_audio", "init_gpio", "init_volume", "init_play"}
LoopPcs ==
  {"loop_top", "exp_read", "exp_cmp", "f_guard", "f_rem1", "f_rem2", "f_win",
   "f_anchor", "f_prog", "f_target", "f_apply", "render"}
BodyPcs == InitPcs \cup {"anim_setup"} \cup LoopPcs
UpdatePcs == {"upd_duration", "upd_fade", "upd_anchor", "upd_time"}
CallPcs == {"start_lock", "start_spawn", "stop_set", "stop_join"} \cup UpdatePcs

CleanedUp ==
  /\ ~pixels /\ ~audio_player /\ ~counter
  /\ display = "off"
  /\ audio.proc = "none"
  /\ ~event_detect

BackToIdle ==
  /\ ~running
  /\ start_time = NoneT
  /\ duration_seconds = NoneT

\* C3: start() on a Running controller is a live update: it takes the update
\* path, clears the fade anchor, and returns True with the new duration and
\* fade window in place and start_time reset to now; no step of it spawns or
\* replaces the worker thread, touches the Counter or the hardware handles
StartWhileRunningUpdates ==
  [][/\ (apc = "start_lock" /\ apc' # apc /\ running) =>
          (apc' = "upd_duration" /\ running')
     /\ (apc = "upd_anchor" /\ apc' # apc) => fade_start_volume' = NoneRat
     /\ (apc = "upd_time" /\ apc' # apc) =>
          /\ aloc'.ret = "True"
          /\ duration_seconds' = NewDuration(areq.d)
          /\ fade_out_seconds' = NewFade(areq.d, areq.f)
          /\ start_time' = now
          /\ running'
     /\ ((apc \in UpdatePcs \/ (apc = "start_lock" /\ running)) /\ apc' # apc) =>
          UNCHANGED <<thread, runs, workerVars, ctr, calls, pixels,
                      audio_player, counter, hwVars, stop_event>>]_vars

\* a live update has just returned True, half a minute or more into the run:
\* the timer is reset and the one worker thread is still the same
LiveUpdateReturned ==
  /\ apc = "respond" /\ areq.op = "start" /\ aloc.was_running
  /\ aloc.ret = "True"
  /\ now > 0 /\ start_time = now
  /\ duration_seconds = NewDuration(areq.d)
  /\ fade_start_volume = NoneRat
  /\ thread = 1 /\ runs = 1 /\ wpc \in LoopPcs

\* the deadline of the current run lies within the modelled clock range
DeadlineInHorizon ==
  /\ start_time # NoneT
  /\ duration_seconds # NoneT
  /\ start_time + duration_seconds <= MaxTime

\* C4: a run that is not stopped and not updated again ends by itself: the
\* worker sees elapsed >= duration (or faults), leaves the loop, and the
\* controller is Idle with is_running False and remaining_seconds 0
RunExpires ==
  /\ [][(wpc = "exp_cmp" /\ wpc' # wpc
          /\ wloc.current_time - wloc.r_start >= duration_seconds) =>
          (wpc' = "cl_pixels" /\ wloc'.exit = "expired")]_vars
  /\ (running /\ ~stop_event /\ DeadlineInHorizon) ~>
       \/ ~IsRunning /\ RemainingSeconds = 0 /\ wloc.exit # "stop"
       \/ apc \in CallPcs

\* the run ended by expiry: nobody called stop
ExpiredToIdle ==
  /\ wpc = "none" /\ wloc.exit = "expired"
  /\ ~stop_event
  /\ ~IsRunning /\ RemainingSeconds = 0
  /\ BackToIdle

\* C5: after stop() on a Running controller the worker sees the flag at the
\* top of its next iteration (at most the frame in progress is still
\* rendered), goes from there to cleanup, and the controller becomes Idle
StopIsObserved ==
  /\ [](late_frames <= 1)
  /\ [][(wpc = "loop_top" /\ wpc' # wpc /\ stop_event) =>
          (wpc' = "cl_pixels" /\ wloc'.exit = "stop")]_vars
  /\ (running /\ stop_event) ~> (~running /\ CleanedUp)

\* a stop that arrived during a frame: that frame was rendered, the next
\* loop test saw the flag, and the controller is Idle
StoppedAfterFrame ==
  /\ wpc = "none" /\ wloc.exit = "stop"
  /\ stop_event /\ late_frames = 1
  /\ ~running /\ CleanedUp

StopOnIdleIsNoOp ==
  [][(apc = "ready" /\ areq'.op = "stop" /\ ~running) =>
       /\ aloc'.ret = "False" /\ aloc'.resp = "409"
       /\ apc' = "respond"
       /\ UNCHANGED <<ctrlVars, ctr, calls, hwVars, workerVars, runs>>]_vars

\* stop() was refused on a controller that is Idle again after a run
StopRefusedOnIdle ==
  /\ apc = "respond" /\ areq.op = "stop"
  /\ aloc.ret = "False" /\ aloc.resp = "409"
  /\ ~running /\ runs = 1 /\ wpc = "none"

\* C8: when stop() returns True the worker thread has exited, cleanup has
\* run and is_running is False
StopTrueMeansStopped ==
  (apc = "respond" /\ areq.op = "stop" /\ aloc.ret = "True") =>
    (wpc = "none" /\ CleanedUp /\ ~IsRunning)

\* C9 as stated: with the audio backend missing the start is aborted, so no
\* frame is ever shown by a run whose player process could not be started
BackendMissingAborts ==
  (audio_player /\ audio.proc = "none") => display = "off"

\* C9, amended: start() from Idle always returns True with the controller
\* Running; a failure of the hardware initialisation happens in the worker,
\* before any frame is shown, and sends it straight to cleanup (and from
\* there to Idle)
InitFaultGoesToCleanup ==
  /\ [](wpc \in InitPcs => (running /\ display = "off"))
  /\ [][(apc = "start_spawn" /\ apc' # apc) =>
          (aloc'.ret = "True" /\ running' /\ wpc' = "init_pixels")]_vars
  /\ [][(wpc \in InitPcs /\ wpc' \notin InitPcs /\ wpc' # "anim_setup") =>
          (wpc' = "cl_pixels" /\ wloc'.exit = "init_fault")]_vars
  /\ [][(wloc.exit = "init_fault" /\ wpc # "none") => wpc' \notin BodyPcs]_vars

\* start() had returned True, the initialisation failed, nothing was shown
\* and the controller is Idle again
InitFaultedToIdle ==
  /\ wpc = "none" /\ wloc.exit = "init_fault"
  /\ runs = 1 /\ thread = 1
  /\ CleanedUp /\ BackToIdle

\* the requests the HTTP surface has to refuse
InvalidRequest(r) ==
  \/ r.op = "start" /\ (r.d <= 0 \/ r.d > MAX_DURATION_MINUTES \/ r.f < 0)
  \/ r.op = "volume" /\ (r.v < VOLUME_MIN \/ r.v > VOLUME_MAX)

\* C10: a start request with duration <= 0 or > 480 or a negative fade, and
\* a volume request outside [0, 100], is answered 400 at once and leaves the
\* run state, the Counter and the worker thread as they were
InvalidRequestRejected ==
  [][/\ (apc = "ready" /\ apc' # apc /\ InvalidRequest(areq')) =>
          /\ apc' = "respond" /\ aloc'.resp = "400"
          /\ UNCHANGED <<ctrlVars, ctr, calls, hwVars, workerVars, runs>>
     /\ (apc = "respond" /\ apc' # apc /\ aloc.resp = "400") =>
          /\ apc' = "ready"
          /\ UNCHANGED <<ctrlVars, ctr, calls, hwVars, workerVars, runs>>]_vars

\* an over-limit start request was refused while a run was in progress
InvalidStartRefusedWhileRunning ==
  /\ apc = "respond" /\ areq.op = "start" /\ aloc.resp = "400"
  /\ areq.d > MAX_DURATION_MINUTES
  /\ running /\ wpc \in LoopPcs

\* C11: status reports running = is_running, remaining_seconds =
\* max(0, duration - elapsed) while Running and 0 when Idle, and the Counter
\* value (80 while there is no Counter); remaining_seconds is never negative
\* and never above the configured duration; serving it changes no state
StatusIsSnapshot ==
  /\ [](RemainingSeconds >= 0)
  /\ [](~running => RemainingSeconds = 0)
  /\ []((running /\ start_time # NoneT /\ duration_seconds # NoneT) =>
         /\ RemainingSeconds <= duration_seconds
         /\ RemainingSeconds =
              IF duration_seconds - (now - start_time) >= 0
              THEN duration_seconds - (now - start_time) ELSE 0)
  /\ [][(apc = "ready" /\ areq'.op = "status") =>
          aloc'.s_running = running]_vars
  /\ [][(apc = "st_check" /\ apc' = "st_vol_check") =>
          (aloc'.s_remaining = 0 /\ RemainingSeconds = 0)]_vars
  /\ [][(apc = "st_rem" /\ apc' = "st_vol_check") =>
          /\ aloc'.s_remaining >= 0
          /\ aloc'.s_remaining <= duration_seconds
          /\ aloc'.s_remaining =
               IF duration_seconds - aloc.s_elapsed >= 0
               THEN duration_seconds - aloc.s_elapsed ELSE 0]_vars
  /\ [][(apc \in {"st_vol_check", "st_vol_read"} /\ aloc'.resp = "200") =>
          aloc'.s_volume = IF counter THEN RatTrunc(ctr.value)
                           ELSE DEFAULT_VOLUME]_vars
  /\ [][(areq.op = "status" /\ apc' # apc) =>
          UNCHANGED <<ctrlVars, ctr, calls, hwVars, workerVars, runs, now>>]_vars

\* status answered half a minute into a one-minute run that fades over its
\* whole length: running, 30 s left, volume faded from 80 to 40
StatusWhileFading ==
  /\ apc = "respond" /\ areq.op = "status" /\ aloc.resp = "200"
  /\ aloc.s_running
  /\ aloc.s_remaining = ClockStep
  /\ aloc.s_volume = COUNTER_INIT \div 2
  /\ running /\ RemainingSeconds = aloc.s_remaining

CallbackRuns == enc_ticks' = enc_ticks + 1

\* C13: an encoder callback that arrives less than debounce_ms after the last accepted callback is ignored: no tick, no Counter callback, Counter value, stored edge levels and last-trigger timestamp unchanged; two callbacks inside one debounce window produce at most one tick
DebounceIgnores ==
  /\ [][(CallbackRuns /\ enc.ms - enc.last_trigger_time < DEBOUNCE_MS)
         => /\ ~enc'.last.accepted
            /\ ctr' = ctr
            /\ calls' = calls
            /\ audio' = audio /\ brightness' = brightness
            /\ enc'.last_trigger_time = enc.last_trigger_time
            /\ enc'.tick_times = enc.tick_times]_vars
  /\ [][(CallbackRuns /\ enc.ms - enc.last_trigger_time >= DEBOUNCE_MS)
         => (enc'.last.accepted /\ enc'.last_trigger_time = enc.ms)]_vars
  /\ [](\A i, j \in 1..Len(enc.tick_times) :
           i < j => enc.tick_times[j] - enc.tick_times[i] >= DEBOUNCE_MS)

TwoEdgesOneTick ==
  /\ enc_ticks = 2
  /\ Len(enc.tick_times) = 1
  /\ ~enc.last.accepted
  /\ enc.last.edge = "rising"
  /\ enc.last.t - enc.last_trigger_time = 1
  /\ enc.DT = LOW /\ enc.CLK = HIGH
  /\ ctr.value = RatInt(COUNTER_INIT - COUNTER_STEP)
  /\ ctr.CLK_Last = LOW

\* C14 as stated: an accepted callback on a rising clock edge leaves the Counter unchanged
RisingEdgeLeavesCounter ==
  [][(CallbackRuns /\ enc'.last.accepted /\ enc'.last.edge = "rising"
        /\ enc.CLK = HIGH /\ ctr.CLK_Last = LOW)
       => ctr'.value = ctr.value]_vars

\* C14: the callback is registered for both edges of the clock line; an accepted callback calls up() when the clock and data levels differ, else down() when the data level differs from the one stored by the previous accepted callback, else nothing, so a rising edge can tick; it stores both levels and makes at most one of up() or down()
EncoderDecodesBothEdges ==
  [][(CallbackRuns /\ enc'.last.accepted)
       => /\ (enc.CLK # enc.DT) =>
               /\ enc'.last.moved = "up"
               /\ ctr'.value = IF RatLeq(RatAdd(ctr.value, ctr.step), ctr.hi)
                               THEN RatAdd(ctr.value, ctr.step) ELSE ctr.hi
          /\ (enc.CLK = enc.DT /\ enc.DT # ctr.dtLastState) =>
               /\ enc'.last.moved = "down"
               /\ ctr'.value = IF RatLeq(ctr.lo, RatSub(ctr.value, ctr.step))
                               THEN RatSub(ctr.value, ctr.step) ELSE ctr.lo
          /\ (enc.CLK = enc.DT /\ enc.DT = ctr.dtLastState) =>
               /\ enc'.last.moved = "none"
               /\ ctr'.value = ctr.value
               /\ calls' = calls
          /\ enc'.last.moved # "none" =>
               calls' = <<[cb |-> "_set_volume", value |-> ctr'.value],
                          [cb |-> "_set_brightness", value |-> ctr'.value]>>
          /\ ctr'.CLK_Last = enc.CLK
          /\ ctr'.dtLastState = enc.DT]_vars

RisingEdgeTicks ==
  /\ enc.last.accepted
  /\ enc.last.edge = "rising"
  /\ enc.last.moved = "up"
  /\ enc.CLK = HIGH /\ enc.DT = LOW
  /\ ctr.CLK_Last = HIGH
  /\ enc_ticks = 2
  /\ Len(enc.tick_times) = 1
  /\ ctr.value = RatInt(COUNTER_INIT + COUNTER_STEP)

\* C15: inside the fade window (0 <= remaining <= fade_window) the value the fade computes is anchor * remaining / fade_window: with duration 600 s and fade window 120 s it is half the anchor at remaining = 60 s and 0 at remaining = 0 s; when remaining > fade_window or fade_window <= 0 neither the Counter nor the anchor changes
FadeValueIsLinear ==
  /\ [][(wpc = "f_target" /\ wpc' = "f_apply"
          /\ wloc.remaining >= 0 /\ wloc.remaining <= fade_out_seconds)
         => /\ RatMul(wloc'.target, RatInt(fade_out_seconds))
                 = RatMul(fade_start_volume, RatInt(wloc.remaining))
            /\ (duration_seconds = 600 /\ fade_out_seconds = 120
                  /\ wloc.remaining = 60)
                 => RatAdd(wloc'.target, wloc'.target) = fade_start_volume
            /\ wloc.remaining = 0 => wloc'.target = RatInt(0)]_vars
  /\ [][(wpc = "f_guard" /\ fade_out_seconds <= 0) => wpc' = "render"]_vars
  /\ [][(wpc = "f_win" /\ wloc.remaining > fade_out_seconds)
         => wpc' = "render"]_vars
  /\ [](wpc \in {"f_win", "f_anchor", "f_prog"}
         => wloc.remaining = duration_seconds - (now - start_time))
  /\ [][(ctr' # ctr \/ fade_start_volume' # fade_start_volume)
         => /\ fade_out_seconds > 0
            /\ duration_seconds - (now - start_time) <= fade_out_seconds]_vars

FadedToHalf ==
  /\ wpc = "render"
  /\ duration_seconds = 600 /\ fade_out_seconds = 120
  /\ duration_seconds - (now - start_time) = 60
  /\ fade_start_volume = RatInt(COUNTER_INIT)
  /\ ctr.value = RatInt(COUNTER_INIT \div 2)
  /\ audio.volume = COUNTER_INIT \div 2

\* the animation loop has just been left because the duration elapsed
JustExpired == wpc = "cl_pixels" /\ wloc.exit = "expired" /\ counter

AnchorCapturedOnce ==
  /\ [][(wpc = "f_win" /\ wpc' # wpc)
         => ((wpc' = "f_anchor") <=> (wloc.remaining <= fade_out_seconds))]_vars
  /\ [][(wpc = "f_anchor" /\ wpc' # wpc)
         => fade_start_volume' = IF fade_start_volume = NoneRat THEN ctr.value
                                 ELSE fade_start_volume]_vars
  /\ [][(fade_start_volume' # fade_start_volume /\ fade_start_volume = NoneRat)
         => (wpc = "f_anchor" /\ wpc' = "f_prog"
             /\ fade_start_volume' = ctr.value)]_vars
  /\ [][(fade_start_volume' # fade_start_volume /\ fade_start_volume # NoneRat)
         => (fade_start_volume' = NoneRat /\ areq.op = "start"
             /\ apc \in {"start_lock", "upd_anchor"} /\ apc' # apc)]_vars
  /\ [][(apc = "upd_anchor" /\ apc' # apc) => fade_start_volume' = NoneRat]_vars
  /\ [][(apc = "start_lock" /\ apc' = "start_spawn")
         => fade_start_volume' = NoneRat]_vars

AnchorKeptAfterVolumeChange ==
  /\ wpc = "f_prog"
  /\ wloc.last_fade_check # NoneT
  /\ start_time = 0
  /\ now - start_time = ClockStep
  /\ fade_start_volume = RatInt(COUNTER_INIT)
  /\ ctr.value = RatInt(50)

\* C18: at most one background noise load is in flight at any time: start_loading() while a load is pending spawns nothing, and a completed background load never overwrites a ready field that has not yet been taken
OneLoadNoOverwrite ==
  /\ [](Cardinality(InFlight(loader)) <= 1)
  /\ [][(loader.pc = "s_test" /\ loader.loading /\ loader'.pc # loader.pc)
         => (loader'.pc = "g_return" /\ loader'.threads = loader.threads)]_vars
  /\ [][loader'.noise_buffer # loader.noise_buffer
         => (loader.noise_buffer = 0 \/ loader'.noise_buffer = 0)]_vars

\* C19: get_noise() returns the ready field and leaves the slot empty when one is ready, otherwise a synchronously loaded field; in both cases it then requests the next background load; a field handed out is never still held in the slot and is never handed out twice
TakeHandsOffOnce ==
  /\ [][(loader.pc = "g_test" /\ loader.noise_buffer # 0
          /\ loader'.pc # loader.pc)
         => /\ loader'.noise = loader.noise_buffer
            /\ loader'.noise_buffer = 0
            /\ loader'.loads = loader.loads]_vars
  /\ [][(loader.pc = "g_sync" /\ loader'.pc = "g_release")
         => /\ loader'.noise = loader'.loads
            /\ loader'.loads = loader.loads + 1
            /\ loader.noise_buffer = 0]_vars
  /\ [][(loader.pc = "g_release" /\ loader'.pc # loader.pc)
         => loader'.pc = "s_test"]_vars
  /\ [][(loader'.pc = "g_return" /\ loader.pc # "g_return")
         => loader.pc \in {"s_test", "s_spawn"}]_vars
  /\ [][(loader.pc = "g_return" /\ loader'.pc # loader.pc)
         => loader'.handed = Append(loader.handed, loader.noise)]_vars
  /\ [](loader.pc \in {"g_release", "s_test", "s_set", "s_spawn", "g_return"}
         => (loader.noise # 0 /\ loader.noise # loader.noise_buffer))
  /\ [](\A i \in 1..Len(loader.handed) :
           /\ loader.handed[i] # 0
           /\ loader.handed[i] # loader.noise_buffer
           /\ \A j \in 1..Len(loader.handed) :
                 i # j => loader.handed[i] # loader.handed[j])

ReadyFieldHandedOut ==
  /\ loader.pc = "idle"
  /\ loader.handed = <<1, 2>>
  /\ loader.field = <<2, 0>>
  /\ loader.threads = <<"done", "load">>
  /\ loader.noise_buffer = 0
  /\ loader.loading

\* C20: after generate_noise_files wrote n fields into an empty directory, load_noise(dir, index=i) returns for every i in 0..n-1 the field generated as file number i, whatever order the storage lists the files in
LoadReturnsFileIndex ==
  (noise_files.call = "index" /\ noise_files.index >= 0
     /\ noise_files.index < noise_files.n_files)
    => noise_files.array = noise_files.index

\* C21: load_noise fails and returns no field when the directory contains no files or the given index is outside 0..len(files)-1; it returns a stored field only for an index inside that range, or a chosen one inside it when no index is given
LoadFailsOutsideRange ==
  noise_files.call # "none" =>
    /\ (noise_files.n_files = 0
          \/ (noise_files.call = "index"
               /\ ~(noise_files.index >= 0
                    /\ noise_files.index < noise_files.n_files)))
         => (noise_files.result # "field" /\ noise_files.array = NoneT)
    /\ noise_files.result = "field"
         => /\ noise_files.index >= 0
            /\ noise_files.index < noise_files.n_files
            /\ noise_files.array
                 = noise_files.content[noise_files.listing[noise_files.index + 1] + 1]
\* C22: a ColorMap call never fails: after clipping, start_index and start_index + 1 are 0-based indices inside the palette extended by its repeated last entry, every interpolated channel is an index 0..255 of the gamma table, temperature 0 gives the gamma-corrected first palette entry and temperature 1 the gamma-corrected last one
ColorMapInPalette ==
  LET cm == lights.cmap
      c == lights.call
  IN c.result # "none" =>
       /\ c.result = "ok"
       /\ c.start >= 0 /\ c.start + 1 < Len(cm.ext_palette)
       /\ Len(cm.ext_palette) = cm.ncols + 1
       /\ \A k \in 1..3 : c.color[k] \in 0..255
       /\ c.x = RatInt(0) => c.out = GammaCorrection(cm, cm.palette[1])
       /\ c.x = RatInt(1) => c.out = GammaCorrection(cm, cm.palette[cm.ncols])

\* the controller's palette asked for temperature 1
HottestColor ==
  /\ lights.cmap.palette = rgb_palette
  /\ lights.call.x = RatInt(1)
  /\ lights.call.start = 7
  /\ lights.call.result = "ok"

\* C23: every element of a field returned by PerlinNoise.render is a number in [0,1], whatever the shape, seed, pixel offset, relative factor and octave count (0 and counts above the octaves that can be computed included), when the persistence is a finite number
RenderInUnitWhenFinite ==
  \A slot \in Slots :
    LET gen == Generator(lights, slot)
    IN (gen.last # <<>> /\ lights.args.persistence.d # 0) =>
         \A i \in 1..Len(gen.last) : \A j \in 1..Len(gen.last[i]) :
           InUnit(gen.last[i][j])

\* C23 as stated: every element of a field returned by PerlinNoise.render is in [0,1] for any persistence
RenderInUnit ==
  \A slot \in Slots :
    LET gen == Generator(lights, slot)
    IN gen.last # <<>> =>
         \A i \in 1..Len(gen.last) : \A j \in 1..Len(gen.last[i]) :
           InUnit(gen.last[i][j])

\* five octaves asked of a 3 x 3 generator with persistence 2: two are
\* added, and the field has an element at the upper end of the range
FiveOctavesAsked ==
  /\ lights.a.shape = <<3, 3>>
  /\ lights.a.last # <<>>
  /\ lights.args.octaves = 5
  /\ lights.args.persistence = Rat(2, 1)
  /\ OctavesAdded(lights.a, lights.args, 0, 3) = 2
  /\ \E i, j \in 1..3 : lights.a.last[i][j] = RatInt(1)

\* C24: PerlinNoise.render is deterministic: generators built with the same seed, shape and repetition period and called with the same arguments return identical fields, a repeated render call on one generator returns the field of the first call, and a render call leaves the gradient lattice of every generator as it was
RenderIsDeterministic ==
  /\ [](\A g, h \in Slots :
          LET gen == Generator(lights, g)
              other == Generator(lights, h)
          IN /\ gen.last = gen.first
             /\ (/\ gen.last # <<>> /\ other.last # <<>>
                 /\ gen.seed = other.seed /\ gen.shape = other.shape
                 /\ gen.repetition_period = other.repetition_period)
                => gen.last = other.last)
  /\ [][\A g \in Slots :
          Generator(lights, g) # NoGenerator =>
            Generator(lights', g).angles = Generator(lights, g).angles]_vars

\* two 3 x 3 generators built with seed 42 were both asked for two octaves
\* and returned the same field, which is not flat
SameSeedSameField ==
  /\ lights.a.seed = 42 /\ lights.b.seed = 42
  /\ lights.a.shape = <<3, 3>> /\ lights.b.shape = <<3, 3>>
  /\ lights.a.repetition_period = 2 /\ lights.b.repetition_period = 2
  /\ lights.args.octaves = 2
  /\ lights.a.last # <<>> /\ lights.a.last = lights.b.last
  /\ \E i, j \in 1..3 : lights.a.last[i][j] # Rat(27, 50)

\* C25: at most one worker is between the beginning of hardware initialisation and the end of cleanup: start() creates a worker thread only when no worker is left, one that is cleaning up or about to reset the run state included, so the hardware initialisation of a run begins after the previous worker has ended
OneWorkerAtATime ==
  [][runs' # runs => (wpc = "none" /\ wpc' = "init_pixels" /\ running)]_vars

\* the worker of a second run is about to initialise the hardware
SecondRunStarted == runs = 2 /\ wpc = "init_pixels" /\ pixels = FALSE

\* C26: the worker reads the run state atomically with respect to a live update: it ends a run for expiry only on the start time that is current, and when _apply_fade_out computes the target volume the anchor it has checked or captured is still set, so the worker does not fault on an anchor cleared in between
RunStateReadAtomically ==
  [][/\ (wpc = "exp_cmp" /\ wloc'.exit = "expired") => wloc.r_start = start_time
     /\ (wpc = "f_target" /\ wpc' # wpc) =>
          (fade_start_volume # NoneRat /\ wloc'.exit # "fault")]_vars

\* C27: a start() that returned True is never lost: the worker makes the controller Idle only when stop() was called, when the run faulted, or when the duration of the last successful start() has passed since that call
StartIsNotLost ==
  [][(wpc = "finally" /\ running /\ ~running') =>
       \/ stop_event
       \/ wloc.exit \in {"fault", "init_fault"}
       \/ /\ start_time # NoneT /\ duration_seconds # NoneT
          /\ now - start_time >= duration_seconds]_vars

\* C28: a status query (is_running, remaining_seconds, volume) or a set_volume call always returns a value: it never fails on a start time, a duration or a Counter that the worker has cleared between the caller's check and its use
QueriesNeverFail == aloc.resp # "crash"

\* C29: the Counter's writers exclude each other: between the read of the value by an encoder tick and its write no other writer has changed the Counter, and the callbacks of one notification all receive the same value
CounterWritersExclusive ==
  [][/\ (enc.pc = "store" /\ enc'.pc # "store") => ctr.value = enc.base
     /\ \A i, j \in 1..Len(enc'.log) :
          enc'.log[i].value = enc'.log[j].value]_vars

\* C30: while the controller is running and has its Counter, the Counter value lies in the closed range 0..100, whatever set_volume calls, fade applications and live updates have occurred
CounterValueInRange ==
  (running /\ counter) =>
    (RatLeq(RatInt(COUNTER_MIN), ctr.value) /\ RatLeq(ctr.value, RatInt(COUNTER_MAX)))

\* C31: while a run is in progress the fade window is never longer than the
\* duration, at every instant at which another thread can read the two fields
FadeWithinDuration ==
  (running /\ duration_seconds # NoneT) => fade_out_seconds <= duration_seconds

\* C32: outside an update, whenever the remaining time of the run is larger
\* than the fade window, no fade anchor is held
AnchorOnlyInWindow ==
  (/\ lock = "free"
   /\ running
   /\ start_time # NoneT
   /\ duration_seconds # NoneT
   /\ duration_seconds - (now - start_time) > fade_out_seconds)
  => fade_start_volume = NoneRat

\* C33: a fade step stores its target in the Counter and runs the callbacks
\* exactly when the target is at least 1 away from the Counter value; a
\* closer target leaves the Counter, the notifications, the audio volume and
\* the brightness as they were
FadeWritesOnlyOnChange ==
  [][(wpc = "f_apply" /\ wpc' = "render") =>
       IF RatLeq(RatInt(1), RatAbs(RatSub(ctr.value, wloc.target)))
       THEN /\ ctr' = [ctr EXCEPT !.value = wloc.target]
            /\ calls' = <<[cb |-> "_set_volume", value |-> wloc.target],
                          [cb |-> "_set_brightness", value |-> wloc.target]>>
       ELSE /\ ctr' = ctr
            /\ calls' = calls
            /\ audio' = audio
            /\ brightness' = brightness]_vars

\* a fade step has ended whose target was less than 1 away from the Counter
\* value, and the Counter still holds the other value
SmallStepSkipped ==
  /\ wpc = "render"
  /\ wloc.last_fade_check = wloc.current_time
  /\ fade_start_volume # NoneRat
  /\ fade_out_seconds > 0
  /\ LET t == TargetVolume(fade_start_volume,
                           FadeProgress(duration_seconds - (now - start_time),
                                        fade_out_seconds))
     IN /\ ctr.value # t
        /\ RatLt(RatAbs(RatSub(ctr.value, t)), RatInt(1))

\* C34: while a noise file is being loaded, by get_noise or by a background
\* thread, the loader's lock is free
NoLoadUnderLock == loader.pc = "g_sync" => loader.lock # "caller"

\* C35: the in-flight flag is set only while start_loading is about to spawn
\* a background thread or a background thread is still on its way to clear it
FlagHasLoader ==
  (loader.loading /\ loader.pc # "s_spawn") => InFlight(loader) # {}

FallbackFailureEndsRun ==
  /\ [](loader.pc = "raised" => loader.lock # "caller")
  /\ [][(loader.pc = "raised" /\ loader'.pc # "raised") =>
          (wpc' = "cl_pixels" /\ wloc'.exit = "fault")]_vars
  /\ (loader.pc = "raised") ~> (wpc = "none" /\ CleanedUp /\ BackToIdle)

\* the run whose field could not be loaded inside the loop is over: frames
\* were shown, no field came back from the last get_noise, hardware released
FetchFaultedToIdle ==
  /\ wpc = "none" /\ wloc.exit = "fault"
  /\ loader.noise = NoneT /\ Len(loader.handed) >= 1
  /\ loader.lock # "caller"
  /\ CleanedUp /\ BackToIdle

\* C38: once _cleanup has dropped the audio player, no player process is
\* alive and no track is playing
ReleasedAudioIsSilent ==
  (wpc \in {"cl_gpio", "finally", "none"} /\ ~audio_player) =>
    (audio.live = 0 /\ ~audio.playing)

\* C39: while the controller runs with the hardware initialised and no Counter
\* operation in progress, from the first rendered frame on the audio volume is
\* int(Counter value) and the LED brightness is Counter value / 100 * 0.5, also
\* before any encoder tick, fade or set_volume
LevelsFollowCounter ==
  (running /\ wpc \in LoopPcs /\ display = "lit"
     /\ pixels /\ audio_player /\ counter)
  => /\ audio.volume = RatTrunc(ctr.value)
     /\ brightness = RatDiv(ctr.value, RatInt(200))

\* C40 as stated: the gamma table has 256 entries, corrected[v] is
\* round(255 * (v/255)^gamma) for every v in 0..255, corrected[0] = 0,
\* corrected[255] = 255, every entry is in 0..255 and the table does not
\* decrease in v
GammaTableIsRounded ==
  lights.cmap.ncols > 0 =>
    LET g == lights.cmap.gamma
        corrected == GammaTable(g)
    IN /\ DOMAIN corrected = 0..255
       /\ \A v \in 0..255 :
            corrected[v] = RatRound(Rat(255 * Pow(v, g), Pow(255, g)))
       /\ corrected[0] = 0 /\ corrected[255] = 255
       /\ \A v \in 0..255 : corrected[v] \in 0..255
       /\ \A v \in 0..254 : corrected[v] <= corrected[v + 1]

\* C40: the gamma table has 256 entries, corrected[v] is the largest integer
\* not above 255 * (v/255)^gamma for every v in 0..255 (the value is cut, not
\* rounded), corrected[0] = 0, corrected[255] = 255, every entry is in 0..255
\* and the table does not decrease in v
GammaTableIsTruncated ==
  lights.cmap.ncols > 0 =>
    LET g == lights.cmap.gamma
        corrected == GammaTable(g)
    IN /\ DOMAIN corrected = 0..255
       /\ \A v \in 0..255 :
            /\ corrected[v] * Pow(255, g) <= 255 * Pow(v, g)
            /\ 255 * Pow(v, g) < (corrected[v] + 1) * Pow(255, g)
       /\ corrected[0] = 0 /\ corrected[255] = 255
       /\ \A v \in 0..255 : corrected[v] \in 0..255
       /\ \A v \in 0..254 : corrected[v] <= corrected[v + 1]

\* a colour map is built whose table holds an entry below the rounded value:
\* 255 * (200/255)^2 is 156.86 and the entry is 156
TruncationBelowRounding ==
  /\ lights.cmap.ncols > 0
  /\ lights.cmap.gamma = 2
  /\ GammaTable(lights.cmap.gamma)[200] = 156
  /\ RatRound(Rat(255 * Pow(200, 2), Pow(255, 2))) = 157

====
